---- MODULE Spec2Model ----
(***************************************************************************)
(* Model of the agent conversation core of iamomiid/council:               *)
(*   - the Redis-backed identity & session store (src/lib/agents.ts),      *)
(*   - the chat route handler POST that drives one turn                    *)
(*     (src/unnamed/part_001),                                             *)
(*   - the scoped tool name function getScopedMcpToolName.                 *)
(* Every store call (one awaited Redis command) is one step of the caller  *)
(* that issues it, so that callers can interleave between awaits.          *)
(***************************************************************************)
EXTENDS Integers, Sequences, FiniteSets, TLC

(***************************************************************************)
(* Bounds of the model.                                                    *)
(***************************************************************************)
\* number of session operations and turns started in one run (createAgent and
\* addAgentMcpServer are not counted: the ids of the model limit them)
MaxCalls == 2
\* number of turns (requests to the chat route) started in one run
MaxTurns == 1
\* number of text chunks the model streams in one turn
MaxChunks == 1
\* length of the server ids the scoping function is applied to
MaxIdLen == 2
\* length of the tool names the scoping function is applied to
MaxToolLen == 1
\* last instant of the clock the memory index is written at
MaxClock == 5
\* instants per calendar day: the day is the first ten characters of the
\* ISO timestamp
TicksPerDay == 2
\* documents in one page of index.range (the code asks for 100)
PageLimit == 2
\* entries in a stored mcpServers value
MaxItems == 2
\* pieces an agent id is put together from
MaxIdPieces == 2

\* callers that may be inside an operation at the same time
Procs == {1, 2}
\* the only caller of the one-at-a-time specification
SeqProcs == {1}

(***************************************************************************)
(* Values.                                                                 *)
(***************************************************************************)
DEFAULT_SESSION_ID == "default"

\* a hash field that is not set (HGETALL leaves it undefined)
NoStr == "<unset>"
NoNum == -1
\* a field of LanguageModelUsage that is undefined
Undef == -1

\* the key functions (lines 6-15), on strings as sequences of characters
KEY_PREFIX == <<"c", "o", "u", "n", "c", "i", "l", ":", "v", "1">>
agentKey(agentId) == KEY_PREFIX \o <<":", "a", "g", "e", "n", "t", ":">> \o agentId
agentSessionsKey(agentId) ==
    agentKey(agentId) \o <<":", "s", "e", "s", "s", "i", "o", "n", "s">>
sessionKey(agentId, sessionId) ==
    agentKey(agentId) \o <<":", "s", "e", "s", "s", "i", "o", "n", ":">> \o sessionId
sessionMessagesKey(agentId, sessionId) ==
    sessionKey(agentId, sessionId) \o <<":", "m", "e", "s", "s", "a", "g", "e", "s">>

\* agent ids callers use; an id is unknown until createAgent has run for it
AgentIdInputs == {"ops", " ops ", "dev", ""}
AgentIds == {"ops", "dev"}
AgentNameInputs == {"Ops", ""}
\* "a1" sorts before "default" and "s2" after it
SessionIds == {DEFAULT_SESSION_ID, "s2", "a1"}

\* the files getBootstrapSystemPrompt looks for, in the order it tries them
candidates == <<"bootstrap.md", "BOOTSTRAP.md", "lib/bootstrap.md", "lib/BOOTSTRAP.md">>
\* what readFile gives for each candidate (NoStr: readFile rejects)
ShippedFiles ==
    [f \in {candidates[i] : i \in DOMAIN candidates} |->
        IF f = "bootstrap.md" THEN " bootstrap " ELSE NoStr]
FileInputs ==
    { ShippedFiles,
      [f \in DOMAIN ShippedFiles |-> NoStr],
      [f \in DOMAIN ShippedFiles |->
          IF f = "bootstrap.md" THEN "  "
          ELSE IF f = "lib/bootstrap.md" THEN "lib bootstrap" ELSE NoStr] }

\* String.prototype.trim on the strings of the model
Trim(s) ==
    CASE s = " ops " -> "ops"
      [] s = " s1 " -> "s1"
      [] s = " be brief " -> "be brief"
      [] s = " bootstrap " -> "bootstrap"
      [] s = "  " -> ""
      [] s = " fact b " -> "fact b"
      [] OTHER -> s

UserMsg(content) == [role |-> "user", content |-> content]
AssistantMsg(content) == [role |-> "assistant", content |-> content]
ToolMsg(content) == [role |-> "tool", content |-> content]

\* messages the UI-side callers append directly
MessageInputs == {UserMsg("hello"), AssistantMsg("hi there")}
BatchInputs ==
    { <<>>,
      <<AssistantMsg("hi there")>>,
      <<AssistantMsg("call:memory_add"), ToolMsg("result:memory_add")>> }

\* response.messages of a finished tool loop, in generation order
ResponseInputs ==
    { <<>>,
      <<AssistantMsg("hi there")>>,
      <<AssistantMsg("call:memory_add"), ToolMsg("result:memory_add"),
        AssistantMsg("done")>> }

\* LanguageModelUsage values: inputTokens, outputTokens, totalTokens,
\* outputTokenDetails.reasoningTokens, reasoningTokens (each may be undefined)
MkUsage(i, o, t, rd, r) ==
    [inputTokens |-> i, outputTokens |-> o, totalTokens |-> t,
     detailReasoningTokens |-> rd, reasoningTokens |-> r]
UsageInputs ==
    { MkUsage(10, 5, 15, 0, Undef),
      MkUsage(2, 1, 4, Undef, 1),
      MkUsage(3, 2, Undef, Undef, Undef) }

\* input.systemPrompt of updateAgentSystemPrompt
PromptInputs == {"be brief", " be brief ", "  "}

\* MCP server payloads handed to addAgentMcpServer
ServerName(id) == IF id = "s1" THEN "Beta" ELSE "Alpha"
ServerInputs ==
    { [id |-> i, name |-> ServerName(i), transport |-> "http", url |-> "https://mcp",
       enabled |-> e] : i \in {"s1", "s2"}, e \in BOOLEAN }

\* MCP server payloads handed to the add / update server actions of the UI:
\* ids that need trimming or are blank, either name for either id, a missing URL
McpServerInputs ==
    ServerInputs \cup
    { [id |-> " s1 ", name |-> "Alpha", transport |-> "http", url |-> "https://mcp",
       enabled |-> TRUE],
      [id |-> "s2", name |-> "Beta", transport |-> "sse", url |-> "https://mcp",
       enabled |-> TRUE],
      [id |-> "", name |-> "Alpha", transport |-> "http", url |-> "https://mcp",
       enabled |-> TRUE],
      [id |-> "s1", name |-> "Beta", transport |-> "http", url |-> "",
       enabled |-> TRUE],
      [id |-> "s3", name |-> "Gamma", transport |-> "http", url |-> "https://mcp",
       enabled |-> TRUE] }
\* an entry of a stored list that is no object (a number, a string, null)
NonObject == [scalar |-> 5]
IsObject(input) == "scalar" \notin DOMAIN input

\* entries of a stored mcpServers value: two well-formed ones (the second is
\* stored untrimmed, with the long transport name), one each without id,
\* name and URL, one with a transport that is not supported, one that is no
\* object
StoredEntries ==
    { [id |-> "s1", name |-> "Beta", transport |-> "http", url |-> "https://mcp",
       enabled |-> TRUE],
      [id |-> " s1 ", name |-> "Alpha", transport |-> "streamable-http",
       url |-> "https://mcp", enabled |-> FALSE],
      [id |-> "", name |-> "Alpha", transport |-> "http", url |-> "https://mcp",
       enabled |-> TRUE],
      [id |-> "s2", name |-> "  ", transport |-> "http", url |-> "https://mcp",
       enabled |-> TRUE],
      [id |-> "s2", name |-> "Alpha", transport |-> "sse", url |-> "",
       enabled |-> TRUE],
      [id |-> "s2", name |-> "Alpha", transport |-> "ws", url |-> "https://mcp",
       enabled |-> TRUE],
      NonObject }
\* stored mcpServers values: lists and maps of up to MaxItems entries, as JSON
\* text or deserialised, and values that are neither
StoredValues ==
    { [text |-> t, kind |-> k, items |-> items] :
        t \in BOOLEAN, k \in {"array", "object"},
        items \in UNION { [1..n -> StoredEntries] : n \in 0..MaxItems } }
    \cup { [text |-> t, kind |-> k, items |-> <<>>] :
              t \in BOOLEAN, k \in {"scalar", "empty"} }
    \cup { [text |-> TRUE, kind |-> "garbage", items |-> <<>>] }

\* input.serverId of updateAgentMcpServer / deleteAgentMcpServer
McpServerIdInputs == {"s1", " s1 ", "s2", "s3", "  "}

(***************************************************************************)
(* State.                                                                  *)
(***************************************************************************)
VARIABLES
    agentsIndex,    \* SMEMBERS council:v1:agents
    agentHash,      \* HGETALL council:v1:agent:<agentId>
    sessionsSet,    \* SMEMBERS council:v1:agent:<agentId>:sessions
    sessionHash,    \* HGETALL council:v1:agent:<agentId>:session:<sessionId>
    messages,       \* LRANGE  ...:session:<sessionId>:messages 0 -1
    calls,          \* operations started so far
    pc,             \* per caller: the await it is suspended at
    l,              \* per caller: locals of the store function it runs
    turn,           \* per caller: locals of the POST handler it runs
    appended,       \* history: messages handed to append calls since the last clear
    added,          \* history: usage deltas handed to addUsage since the last clear
    scope,          \* arguments and results of getScopedMcpToolName
    memoryIndex,    \* per agent: the documents of its Upstash Search index
    clock,          \* new Date() of the latest memory append
    listing,        \* locals of listAgentMemories and the backend it pages through
    stored,         \* a stored mcpServers value and what parseStoredMcpServers makes of it
    keyring,        \* two stored entities and the keys the key functions give them
    files,          \* readFile of each bootstrap candidate in process.cwd()
    bootstrapPromptCache    \* the module variable of src/lib/agents.ts line 398

vars == <<agentsIndex, agentHash, sessionsSet, sessionHash, messages,
          calls, pc, l, turn, appended, added, scope, memoryIndex, clock, listing,
          stored, keyring, files, bootstrapPromptCache>>
store == <<agentsIndex, agentHash, sessionsSet, sessionHash, messages>>
\* state that only the functions of src/lib/memory.ts, getBootstrapSystemPrompt
\* and the pure functions tried on their own touch
others == <<scope, memoryIndex, clock, listing, stored, keyring, files, bootstrapPromptCache>>

(***************************************************************************)
(* Redis hashes. HSET merges the given fields into the hash; a key exists  *)
(* when at least one field is set.                                         *)
(***************************************************************************)
EmptyAgentHash ==
    [id |-> NoStr, name |-> NoStr, systemPrompt |-> NoStr, mcpServers |-> <<>>,
     createdAt |-> NoNum, updatedAt |-> NoNum]

EmptySessionHash ==
    [id |-> NoStr, agentId |-> NoStr, createdAt |-> NoNum, updatedAt |-> NoNum,
     lastMessageAt |-> NoNum,
     usageInputTokens |-> NoNum, usageReasoningTokens |-> NoNum,
     usageOutputTokens |-> NoNum, usageTotalTokens |-> NoNum]

HSet(hash, fields) ==
    [f \in DOMAIN hash |-> IF f \in DOMAIN fields THEN fields[f] ELSE hash[f]]

ZeroUsage ==
    [inputTokens |-> 0, reasoningTokens |-> 0, outputTokens |-> 0, totalTokens |-> 0]

\* asNumber: a finite number is kept, anything else (undefined) is 0
asNumber(value) == IF value = NoNum THEN 0 ELSE value

\* a ?? b on numbers
Coalesce(a, b) == IF a = Undef THEN b ELSE a

\* the record getSessionTokenUsage builds from a session hash
UsageOfHash(record) ==
    [inputTokens |-> asNumber(record.usageInputTokens),
     reasoningTokens |-> asNumber(record.usageReasoningTokens),
     outputTokens |-> asNumber(record.usageOutputTokens),
     totalTokens |-> asNumber(record.usageTotalTokens)]

\* NextUsage that writes the delta over the stored counters
NextUsage_overwrite(current, usage) ==
    [inputTokens |-> Coalesce(usage.inputTokens, 0),
     reasoningTokens |->
        Coalesce(usage.detailReasoningTokens, Coalesce(usage.reasoningTokens, 0)),
     outputTokens |-> Coalesce(usage.outputTokens, 0),
     totalTokens |->
        Coalesce(usage.totalTokens,
                 Coalesce(usage.inputTokens, 0) + Coalesce(usage.outputTokens, 0))]

\* `next` of addSessionTokenUsage
NextUsage(current, usage) ==
    LET inputTokens == Coalesce(usage.inputTokens, 0)
        outputTokens == Coalesce(usage.outputTokens, 0)
        reasoningTokens ==
            Coalesce(usage.detailReasoningTokens, Coalesce(usage.reasoningTokens, 0))
        totalTokens == Coalesce(usage.totalTokens, inputTokens + outputTokens)
    IN  [inputTokens |-> current.inputTokens + inputTokens,
         reasoningTokens |-> current.reasoningTokens + reasoningTokens,
         outputTokens |-> current.outputTokens + outputTokens,
         totalTokens |-> current.totalTokens + totalTokens]

(***************************************************************************)
(* MCP server configuration helpers.                                       *)
(***************************************************************************)
\* normalizeMcpServer accepts the payload
ValidMcpServer(input) ==
    /\ IsObject(input)
    /\ Trim(input.id) # ""
    /\ Trim(input.name) # ""
    /\ input.transport \in {"http", "sse", "streamable-http"}
    /\ Trim(input.url) # ""

normalizeTransport(value) == IF value = "sse" THEN "sse" ELSE "http"

normalizeMcpServer(input) ==
    [id |-> Trim(input.id), name |-> Trim(input.name),
     transport |-> normalizeTransport(input.transport),
     url |-> Trim(input.url), enabled |-> input.enabled]

\* a loop that gives up on the whole list at the first malformed entry
parseStoredMcpServers_strict(value) ==
    IF \A i \in 1..Len(value) : ValidMcpServer(value[i])
    THEN [i \in 1..Len(value) |-> normalizeMcpServer(value[i])]
    ELSE <<>>

\* parseStoredMcpServers: malformed entries are skipped
RECURSIVE parseStoredMcpServers(_)
parseStoredMcpServers(value) ==
    IF value = <<>> THEN <<>>
    ELSE IF ValidMcpServer(Head(value))
         THEN <<normalizeMcpServer(Head(value))>> \o parseStoredMcpServers(Tail(value))
         ELSE parseStoredMcpServers(Tail(value))

\* what normalizeStoredMcpPayload returns: an array, or null
NotAnArray == [array |-> FALSE, items |-> <<>>]

\* normalizeStoredMcpPayload. A stored value is a JSON text or a value the
\* client has already deserialised (text), of one of the kinds array, object
\* (items are its Object.values), scalar, empty (null, undefined, "") or, for
\* a text, garbage (JSON.parse throws).
RECURSIVE normalizeStoredMcpPayload(_)
normalizeStoredMcpPayload(value) ==
    IF ~value.text /\ value.kind = "array"
    THEN [array |-> TRUE, items |-> value.items]
    ELSE IF value.text
    THEN IF value.kind = "garbage"
         THEN NotAnArray
         ELSE normalizeStoredMcpPayload([value EXCEPT !.text = FALSE])
    ELSE IF value.kind = "object"
            /\ \A i \in 1..Len(value.items) : IsObject(value.items[i])
    THEN [array |-> TRUE, items |-> value.items]
    ELSE NotAnArray

\* parseStoredMcpServers on any stored value (lines 440-459); the operator
\* parseStoredMcpServers above is its loop over the array
parseStoredValue(value) ==
    IF value.kind = "empty"
    THEN <<>>
    ELSE LET parsed == normalizeStoredMcpPayload(value)
         IN  IF ~parsed.array THEN <<>> ELSE parseStoredMcpServers(parsed.items)

\* a.name.localeCompare(b.name) < 0 on the names of the model
NameRank(n) == CASE n = "Alpha" -> 1 [] n = "Beta" -> 2 [] n = "Gamma" -> 3 [] OTHER -> 4
NameBefore(a, b) == NameRank(a.name) < NameRank(b.name)

\* a list that is left in the order it was built in
SortByName_none(servers) == servers

\* Array.prototype.sort by name (stable)
RECURSIVE InsertByName(_, _)
InsertByName(sorted, x) ==
    IF sorted = <<>> THEN <<x>>
    ELSE IF NameBefore(x, Head(sorted))
         THEN <<x>> \o sorted
         ELSE <<Head(sorted)>> \o InsertByName(Tail(sorted), x)

RECURSIVE SortByName(_)
SortByName(servers) ==
    IF servers = <<>> THEN <<>>
    ELSE InsertByName(SortByName(SubSeq(servers, 1, Len(servers) - 1)),
                      servers[Len(servers)])

\* a.localeCompare(b) < 0 on the session ids of the model
SessionRank(s) == CASE s = "a1" -> 1 [] s = "default" -> 2 [] s = "s2" -> 3 [] OTHER -> 4

\* a comparator that knows no reserved session
SessionBefore_lexical(a, b) == SessionRank(a) < SessionRank(b)

\* the comparator of listAgentSessions says a goes before b
SessionBefore(a, b) ==
    IF a = DEFAULT_SESSION_ID THEN TRUE
    ELSE IF b = DEFAULT_SESSION_ID THEN FALSE
    ELSE SessionRank(a) < SessionRank(b)

\* [...sessions].sort(comparator) on the members SMEMBERS returned
RECURSIVE SortSessions(_)
SortSessions(sessions) ==
    IF sessions = {} THEN <<>>
    ELSE LET first == CHOOSE x \in sessions :
                          \A y \in sessions \ {x} : SessionBefore(x, y)
         IN  <<first>> \o SortSessions(sessions \ {first})

(***************************************************************************)
(* getScopedMcpToolName, lines 246-253, and the registration of line 187.  *)
(* Strings are sequences of characters.                                    *)
(***************************************************************************)
\* the characters /[^a-zA-Z0-9_]/ leaves alone
WordChars ==
    {"a", "b", "c", "d", "e", "f", "g", "h", "i", "j", "k", "l", "m",
     "n", "o", "p", "q", "r", "s", "t", "u", "v", "w", "x", "y", "z",
     "A", "B", "C", "D", "E", "F", "G", "H", "I", "J", "K", "L", "M",
     "N", "O", "P", "Q", "R", "S", "T", "U", "V", "W", "X", "Y", "Z",
     "0", "1", "2", "3", "4", "5", "6", "7", "8", "9", "_"}

\* str.replace(/[^a-zA-Z0-9_]/g, "_")
Sanitize(str) == [i \in 1..Len(str) |-> IF str[i] \in WordChars THEN str[i] ELSE "_"]

\* a registration under the tool's own (sanitized) name
getScopedMcpToolName_raw(serverId, toolName) == Sanitize(toolName)

getScopedMcpToolName(serverId, toolName) ==
    <<"m", "c", "p", "_">> \o Sanitize(serverId) \o <<"_", "_">> \o Sanitize(toolName)

\* the keys `tools` starts with (lines 79-172)
LocalToolNames ==
    { <<"s", "e", "s", "s", "i", "o", "n", "s", "_", "l", "i", "s", "t">>, <<"u", "p", "d", "a", "t", "e", "_", "s", "y", "s", "t", "e", "m", "_", "p", "r", "o", "m", "p", "t">>,
      <<"m", "e", "m", "o", "r", "y", "_", "a", "d", "d">>, <<"m", "e", "m", "o", "r", "y", "_", "s", "e", "a", "r", "c", "h">> }

\* tools[name] = tool: an existing key is overwritten
SetTool(tools, name, owner) ==
    {e \in tools : e.name # name} \cup {[name |-> name, owner |-> owner]}

\* the characters of the server ids of ServerInputs
ServerIdChars(id) == IF id = "s1" THEN <<"s", "1">> ELSE <<"s", "2">>

\* the catalogue client.tools() of a server returns: both servers advertise
\* a tool with the same name
AdvertisedTools(id) ==
    IF id = "s1" THEN {<<"g", "e", "t">>, <<"p", "u", "t">>} ELSE {<<"g", "e", "t">>}

\* lines 186-188: every entry of serverTools is set under its scoped name
RECURSIVE RegisterTools(_, _, _)
RegisterTools(tools, id, toolNames) ==
    IF toolNames = {} THEN tools
    ELSE LET toolName == CHOOSE t \in toolNames : TRUE
         IN  RegisterTools(SetTool(tools, getScopedMcpToolName(ServerIdChars(id), toolName),
                                   ServerIdChars(id)),
                           id, toolNames \ {toolName})

(***************************************************************************)
(* Callers. A caller is idle or suspended at an await of the function it   *)
(* runs; `ret` is where the function returns to and `exc` where a throw    *)
(* lands ("idle": the call is over, its result is in `outcome`).           *)
(***************************************************************************)
NoUsage == MkUsage(Undef, Undef, Undef, Undef, Undef)
NoServer == [id |-> "", name |-> "", transport |-> "http", url |-> "", enabled |-> FALSE]

\* locals of the POST handler before it runs
IdleTurn ==
    [agentId |-> "", sessionId |-> "", content |-> "",
     messages |-> <<>>, system |-> NoStr, servers |-> <<>>, clients |-> <<>>,
     tools |-> {},
     response |-> "none", stream |-> "none",
     discovery |-> FALSE, initFailed |-> FALSE, modelCalled |-> FALSE,
     generationFailed |-> FALSE, deliveryFailed |-> FALSE, persistFailed |-> FALSE,
     usageFailed |-> FALSE, finalized |-> FALSE,
     chunks |-> 0, respMessages |-> <<>>, usage |-> NoUsage,
     pre |-> [messages |-> <<>>, usage |-> ZeroUsage]]

IdleLocals ==
    [op |-> "none", agentId |-> "", sessionId |-> "", name |-> "",
     messages |-> <<>>, usage |-> NoUsage, server |-> NoServer, serverId |-> "",
     current |-> ZeroUsage, alreadyExists |-> FALSE, timestamp |-> 0,
     agentPrompt |-> NoStr, agentMcp |-> <<>>, systemPrompt |-> NoStr,
     ret |-> "idle", exc |-> "idle", outcome |-> "none",
     retMessages |-> <<>>, retUsage |-> ZeroUsage, retServers |-> <<>>, retPrompt |-> NoStr,
     ids |-> {}, retSessions |-> <<>>, retAgents |-> <<>>,
     content |-> "", existing |-> {}, retEntries |-> 0, candidate |-> 0,
     items |-> {}, results |-> {}]

\* the locals of a fresh call of store function `op`
CallLocals(op, agentId, sessionId, ret, exc) ==
    [IdleLocals EXCEPT !.op = op, !.agentId = agentId, !.sessionId = sessionId,
                       !.ret = ret, !.exc = exc]

Goto(p, label) == pc' = [pc EXCEPT ![p] = label]

\* the running function throws: control goes to the caller's handler; what
\* execute() of a tool throws goes to the tool loop, and its frame is gone
Throw(p, err) ==
    /\ pc' = [pc EXCEPT ![p] = l[p].exc]
    /\ l' = [l EXCEPT ![p] = IF l[p].exc = "t_pump" THEN IdleLocals
                              ELSE [l[p] EXCEPT !.outcome = err]]

\* the running function returns with locals `locals`; what execute() of a
\* tool returns goes to the tool loop, and its frame is gone
Return(p, locals) ==
    /\ pc' = [pc EXCEPT ![p] = locals.ret]
    /\ l' = [l EXCEPT ![p] = IF locals.ret = "t_pump" THEN IdleLocals
                              ELSE [locals EXCEPT !.outcome = "ok"]]

\* new Date(): the time of the call in progress; a later call reads a later time
Now == calls

\* a caller outside the store (the UI through a server action, the browser
\* through the chat route) starts a call
Begin(p, max) ==
    /\ pc[p] = "idle"
    /\ calls < max
    /\ calls' = calls + 1

\* a call of a store function that is not made by the chat route
NoTurn(p) == turn' = [turn EXCEPT ![p] = IdleTurn]

\* `!agent?.id || !agent.name` of assertAgentExists
AgentMissing(agent) ==
    \/ agent.id = NoStr \/ agent.id = ""
    \/ agent.name = NoStr \/ agent.name = ""

\* redis.exists(key) on a hash
KeyExistsAgent(a) == a \in AgentIds /\ agentHash[a] # EmptyAgentHash
KeyExistsSession(a, s) == sessionHash[a][s] # EmptySessionHash

\* agent ids outside the model's key space have no hash
AgentRecord(a) == IF a \in AgentIds THEN agentHash[a] ELSE EmptyAgentHash

\* no stored value is being read
IdleStored ==
    [value |-> [text |-> FALSE, kind |-> "empty", items |-> <<>>], at |-> "idle",
     servers |-> <<>>]

\* no keys have been computed
IdleKeyring ==
    [first |-> [kind |-> "agent", agentId |-> <<>>, sessionId |-> <<>>],
     second |-> [kind |-> "agent", agentId |-> <<>>, sessionId |-> <<>>],
     at |-> "idle", firstKey |-> <<>>, secondKey |-> <<>>]

\* listAgentMemories has not been called
IdleListing ==
    [backend |-> "none", size |-> 0, at |-> "idle", i |-> 0, cursor |-> 0,
     seenCursors |-> {}, asked |-> <<>>, memories |-> <<>>, result |-> <<>>]

\* getScopedMcpToolName has not been called
IdleScope == [servers |-> <<>>, toolName |-> <<>>, tools |-> {}, next |-> 0]

\* history of the deltas of one session: their field-wise sum, and whether
\* every one of them carried its input, output and total tokens
NothingAdded == [sum |-> ZeroUsage, exact |-> TRUE]
FullUsage(usage) ==
    usage.inputTokens # Undef /\ usage.outputTokens # Undef /\ usage.totalTokens # Undef
DeltaOf(usage) ==
    [inputTokens |-> usage.inputTokens,
     reasoningTokens |->
        IF usage.detailReasoningTokens # Undef THEN usage.detailReasoningTokens
        ELSE IF usage.reasoningTokens # Undef THEN usage.reasoningTokens ELSE 0,
     outputTokens |-> usage.outputTokens,
     totalTokens |-> usage.totalTokens]
SumUsage(x, y) ==
    [inputTokens |-> x.inputTokens + y.inputTokens,
     reasoningTokens |-> x.reasoningTokens + y.reasoningTokens,
     outputTokens |-> x.outputTokens + y.outputTokens,
     totalTokens |-> x.totalTokens + y.totalTokens]
NoteAdded(h, usage) ==
    IF FullUsage(usage) /\ h.exact
    THEN [sum |-> SumUsage(h.sum, DeltaOf(usage)), exact |-> TRUE]
    ELSE [sum |-> h.sum, exact |-> FALSE]

\* the histories record what callers hand to an existing agent's session
NoteAppend(a, s, batch) ==
    appended' = IF KeyExistsAgent(a)
                THEN [appended EXCEPT ![a][s] = @ \o batch]
                ELSE appended
NoteUsage(a, s, usage) ==
    added' = IF KeyExistsAgent(a)
             THEN [added EXCEPT ![a][s] = NoteAdded(@, usage)]
             ELSE added
NoteClear(a, s) ==
    /\ appended' = IF KeyExistsAgent(a) THEN [appended EXCEPT ![a][s] = <<>>] ELSE appended
    /\ added' = IF KeyExistsAgent(a) THEN [added EXCEPT ![a][s] = NothingAdded] ELSE added

\* the first non-blank candidate of the files, trimmed (lines 405-418)
RECURSIVE FirstPrompt(_, _)
FirstPrompt(fs, i) ==
    IF i > Len(candidates) THEN NoStr
    ELSE IF fs[candidates[i]] # NoStr /\ Trim(fs[candidates[i]]) # ""
         THEN Trim(fs[candidates[i]])
         ELSE FirstPrompt(fs, i + 1)
\* what getBootstrapSystemPrompt gives: the cached prompt, else the files'
BootstrapPrompt ==
    IF bootstrapPromptCache # NoStr THEN bootstrapPromptCache ELSE FirstPrompt(files, 1)

\* the state after construction, in a working directory that holds `fs`
Installed(fs) ==
    /\ agentsIndex = {}
    /\ agentHash = [a \in AgentIds |-> EmptyAgentHash]
    /\ sessionsSet = [a \in AgentIds |-> {}]
    /\ sessionHash = [a \in AgentIds |-> [s \in SessionIds |-> EmptySessionHash]]
    /\ messages = [a \in AgentIds |-> [s \in SessionIds |-> <<>>]]
    /\ calls = 0
    /\ pc = [p \in Procs |-> "idle"]
    /\ l = [p \in Procs |-> IdleLocals]
    /\ turn = [p \in Procs |-> IdleTurn]
    /\ appended = [a \in AgentIds |-> [s \in SessionIds |-> <<>>]]
    /\ added = [a \in AgentIds |-> [s \in SessionIds |-> NothingAdded]]
    /\ scope = IdleScope
    /\ memoryIndex = [a \in AgentIds |-> {}]
    /\ files = fs
    /\ bootstrapPromptCache = NoStr
    /\ clock = 0
    /\ listing = IdleListing
    /\ stored = IdleStored
    /\ keyring = IdleKeyring

\* a deployment with bootstrap.md in its working directory
Init == Installed(ShippedFiles)
\* a deployment may lack the file, or hold a blank one
InitAgents == \E fs \in FileInputs : Installed(fs)

(***************************************************************************)
(* getBootstrapSystemPrompt: the cached prompt, or the trimmed content of  *)
(* the first candidate file that can be read and is not blank, or a throw. *)
(***************************************************************************)
\* getBootstrapSystemPrompt returns `prompt` to the function that awaited it
getBootstrapSystemPrompt_return(p, me, prompt) ==
    IF me.op = "createAgent"
    THEN Goto(p, "ca_hset") /\ l' = [l EXCEPT ![p] = [me EXCEPT !.systemPrompt = prompt]]
    ELSE IF me.op = "resetAgentSystemPrompt"
    THEN /\ Goto(p, "sp_hset")
         /\ l' = [l EXCEPT ![p] = [me EXCEPT !.systemPrompt = prompt, !.timestamp = Now]]
    ELSE Return(p, [me EXCEPT !.retPrompt = prompt])

\* lines 401-405: a caller with locals `me` enters; without a cached prompt
\* it goes on to read the first candidate
getBootstrapSystemPrompt(p, me) ==
    IF bootstrapPromptCache # NoStr
    THEN getBootstrapSystemPrompt_return(p, me, bootstrapPromptCache)
    ELSE /\ Goto(p, "bs_readFile")
         /\ l' = [l EXCEPT ![p] = [me EXCEPT !.candidate = 1]]

\* lines 407-419: one readFile settles
getBootstrapSystemPrompt_readFile(p) ==
    /\ pc[p] = "bs_readFile"
    /\ LET content == files[candidates[l[p].candidate]]
           trimmed == IF content = NoStr THEN "" ELSE Trim(content)
       IN  IF trimmed # ""
           THEN /\ bootstrapPromptCache' = trimmed
                /\ getBootstrapSystemPrompt_return(p, l[p], trimmed)
           ELSE /\ UNCHANGED bootstrapPromptCache
                /\ IF l[p].candidate < Len(candidates)
                   THEN /\ l' = [l EXCEPT ![p].candidate = @ + 1]
                        /\ UNCHANGED pc
                   ELSE Throw(p, "MissingBootstrap")
    /\ UNCHANGED <<scope, memoryIndex, clock, listing, stored, keyring, files>>
    /\ UNCHANGED <<store, calls, turn, appended, added>>

(***************************************************************************)
(* assertAgentExists: HGETALL of the agent hash, then whatever the calling *)
(* function does synchronously before its next await.                      *)
(***************************************************************************)
EnsuringOps == {"appendSessionMessage", "appendSessionMessages", "clearSessionMessages"}
UsageOps == {"getSessionTokenUsage", "addSessionTokenUsage"}

\* an add that looks at the payload only
AddServerCheck_noCollision(servers, input) ==
    IF ~ValidMcpServer(input) THEN "InvalidInput" ELSE "ok"

\* addAgentMcpServer between assertAgentExists and saveAgentMcpServers
AddServerCheck(servers, input) ==
    IF ~ValidMcpServer(input) THEN "InvalidInput"
    ELSE IF \E i \in 1..Len(servers) : servers[i].id = normalizeMcpServer(input).id
         THEN "Conflict"
         ELSE "ok"

\* an update that treats the target's own identifier as a collision
UpdateServerCheck_strict(servers, targetId, input) ==
    IF targetId = "" THEN "InvalidInput"
    ELSE IF ~\E i \in 1..Len(servers) : servers[i].id = targetId THEN "NotFound"
    ELSE IF ~ValidMcpServer(input) THEN "InvalidInput"
    ELSE IF \E i \in 1..Len(servers) : servers[i].id = normalizeMcpServer(input).id
         THEN "Conflict"
         ELSE "ok"

\* an update that never looks for a collision
UpdateServerCheck_noCollision(servers, targetId, input) ==
    IF targetId = "" THEN "InvalidInput"
    ELSE IF ~\E i \in 1..Len(servers) : servers[i].id = targetId THEN "NotFound"
    ELSE IF ~ValidMcpServer(input) THEN "InvalidInput"
    ELSE "ok"

\* updateAgentMcpServer between assertAgentExists and saveAgentMcpServers
UpdateServerCheck(servers, targetId, input) ==
    IF targetId = "" THEN "InvalidInput"
    ELSE IF ~\E i \in 1..Len(servers) : servers[i].id = targetId THEN "NotFound"
    ELSE IF ~ValidMcpServer(input) THEN "InvalidInput"
    ELSE IF \E i \in 1..Len(servers) :
                /\ servers[i].id = normalizeMcpServer(input).id
                /\ servers[i].id # targetId
         THEN "Conflict"
         ELSE "ok"

\* updated[index] = next, index = servers.findIndex(server => server.id === targetId)
ReplaceServer(servers, targetId, next) ==
    LET index == CHOOSE i \in 1..Len(servers) :
                     /\ servers[i].id = targetId
                     /\ \A j \in 1..(i - 1) : servers[j].id # targetId
    IN  [i \in 1..Len(servers) |-> IF i = index THEN next ELSE servers[i]]

\* servers.filter(server => server.id !== targetId)
RemoveServer(servers, targetId) ==
    LET keep(server) == server.id # targetId IN SelectSeq(servers, keep)

\* a delete that accepts an identifier nobody configured
DeleteServerCheck_lenient(servers, targetId) ==
    IF targetId = "" THEN "InvalidInput" ELSE "ok"

\* deleteAgentMcpServer between assertAgentExists and saveAgentMcpServers
DeleteServerCheck(servers, targetId) ==
    IF targetId = "" THEN "InvalidInput"
    ELSE IF Len(RemoveServer(servers, targetId)) = Len(servers) THEN "NotFound"
    ELSE "ok"

assertAgentExists(p) ==
    /\ pc[p] = "assert"
    /\ LET agent == AgentRecord(l[p].agentId)
           me == [l[p] EXCEPT !.agentPrompt = agent.systemPrompt,
                              !.agentMcp = agent.mcpServers,
                              !.timestamp = Now]
       IN  IF AgentMissing(agent) THEN Throw(p, "NotFound")
           ELSE IF me.op \in EnsuringOps THEN Goto(p, "es_exists") /\ l' = [l EXCEPT ![p] = me]
           ELSE IF me.op = "getSessionMessages" THEN Goto(p, "gm_lrange") /\ l' = [l EXCEPT ![p] = me]
           ELSE IF me.op \in UsageOps THEN Goto(p, "gu_hgetall") /\ l' = [l EXCEPT ![p] = me]
           ELSE IF me.op = "listAgentSessions"
                THEN Goto(p, "ls_smembers") /\ l' = [l EXCEPT ![p] = me]
           ELSE IF me.op = "getAgentSystemPrompt"
                THEN IF agent.systemPrompt = NoStr
                     THEN getBootstrapSystemPrompt(p, me)
                     ELSE Return(p, [me EXCEPT !.retPrompt = agent.systemPrompt])
           ELSE IF me.op = "updateAgentSystemPrompt"
                THEN Goto(p, "sp_hset") /\ l' = [l EXCEPT ![p] = me]
           ELSE IF me.op = "resetAgentSystemPrompt"
                THEN getBootstrapSystemPrompt(p, me)
           ELSE IF me.op = "listAgentMcpServers"
                THEN Return(p, [me EXCEPT !.retServers = parseStoredMcpServers(agent.mcpServers)])
           ELSE IF me.op = "updateAgentMcpServer"
                THEN LET servers == parseStoredMcpServers(agent.mcpServers)
                         targetId == Trim(me.serverId)
                         verdict == UpdateServerCheck(servers, targetId, me.server)
                     IN  IF verdict # "ok" THEN Throw(p, verdict)
                         ELSE /\ Goto(p, "ms_save")
                              /\ l' = [l EXCEPT ![p] = [me EXCEPT !.retServers =
                                          SortByName(ReplaceServer(servers, targetId,
                                                       normalizeMcpServer(me.server)))]]
           ELSE IF me.op = "deleteAgentMcpServer"
                THEN LET servers == parseStoredMcpServers(agent.mcpServers)
                         targetId == Trim(me.serverId)
                         verdict == DeleteServerCheck(servers, targetId)
                     IN  IF verdict # "ok" THEN Throw(p, verdict)
                         ELSE /\ Goto(p, "ms_save")
                              /\ l' = [l EXCEPT ![p] = [me EXCEPT !.retServers =
                                          RemoveServer(servers, targetId)]]
           ELSE \* addAgentMcpServer
                LET servers == parseStoredMcpServers(agent.mcpServers)
                    verdict == AddServerCheck(servers, me.server)
                IN  IF verdict # "ok" THEN Throw(p, verdict)
                    ELSE /\ Goto(p, "ms_save")
                         /\ l' = [l EXCEPT ![p] = [me EXCEPT !.retServers =
                                     SortByName(Append(servers, normalizeMcpServer(me.server)))]]
    /\ UNCHANGED <<others, store, calls, turn, appended, added>>

(***************************************************************************)
(* ensureSession: EXISTS, SADD, HSET session, HSET agent.                  *)
(***************************************************************************)
ensureSession_exists(p) ==
    /\ pc[p] = "es_exists"
    /\ l' = [l EXCEPT ![p].alreadyExists = KeyExistsSession(l[p].agentId, l[p].sessionId)]
    /\ Goto(p, "es_sadd")
    /\ UNCHANGED <<others, store, calls, turn, appended, added>>

ensureSession_sadd(p) ==
    /\ pc[p] = "es_sadd"
    /\ sessionsSet' = [sessionsSet EXCEPT ![l[p].agentId] = @ \cup {l[p].sessionId}]
    /\ Goto(p, "es_hset")
    /\ UNCHANGED <<others, agentsIndex, agentHash, sessionHash, messages, calls, l, turn,
                   appended, added>>

\* EnsureFields that writes the fields of a new session every time
EnsureFields_always(alreadyExists, agentId, sessionId, timestamp) ==
    [id |-> sessionId, agentId |-> agentId, createdAt |-> timestamp,
     updatedAt |-> timestamp,
     usageInputTokens |-> 0, usageReasoningTokens |-> 0,
     usageOutputTokens |-> 0, usageTotalTokens |-> 0]

\* the fields ensureSession writes to the session hash
EnsureFields(alreadyExists, agentId, sessionId, timestamp) ==
    IF ~alreadyExists
    THEN [id |-> sessionId, agentId |-> agentId, createdAt |-> timestamp,
          updatedAt |-> timestamp,
          usageInputTokens |-> 0, usageReasoningTokens |-> 0,
          usageOutputTokens |-> 0, usageTotalTokens |-> 0]
    ELSE [updatedAt |-> timestamp]

ensureSession_hset(p) ==
    /\ pc[p] = "es_hset"
    /\ sessionHash' = [sessionHash EXCEPT ![l[p].agentId][l[p].sessionId] =
            HSet(@, EnsureFields(l[p].alreadyExists, l[p].agentId, l[p].sessionId,
                                 l[p].timestamp))]
    /\ Goto(p, "es_agent")
    /\ UNCHANGED <<others, agentsIndex, agentHash, sessionsSet, messages, calls, l, turn,
                   appended, added>>

ensureSession_agent(p) ==
    /\ pc[p] = "es_agent"
    /\ agentHash' = [agentHash EXCEPT ![l[p].agentId] =
            HSet(@, [updatedAt |-> l[p].timestamp])]
    /\ IF l[p].op = "createAgent" THEN Return(p, l[p])
       ELSE IF l[p].op = "listAgentSessions"
            THEN Return(p, [l[p] EXCEPT !.retSessions = <<DEFAULT_SESSION_ID>>])
       ELSE IF l[p].op = "clearSessionMessages" THEN Goto(p, "cl_del") /\ UNCHANGED l
       ELSE Goto(p, "ap_rpush") /\ UNCHANGED l
    /\ UNCHANGED <<others, agentsIndex, sessionsSet, sessionHash, messages, calls, turn,
                   appended, added>>

(***************************************************************************)
(* createAgent                                                             *)
(***************************************************************************)
createAgent(p) ==
    /\ pc[p] = "idle"
    /\ NoTurn(p)
    /\ \E id \in AgentIdInputs, name \in AgentNameInputs :
         LET me == [CallLocals("createAgent", Trim(id), DEFAULT_SESSION_ID, "idle", "idle")
                        EXCEPT !.name = Trim(name)]
         IN  IF me.name = "" \/ me.agentId = ""
             THEN /\ l' = [l EXCEPT ![p] = [me EXCEPT !.outcome = "InvalidInput"]]
                  /\ UNCHANGED pc
             ELSE /\ l' = [l EXCEPT ![p] = me]
                  /\ Goto(p, "ca_exists")
    /\ UNCHANGED <<others, store, calls, appended, added>>

\* a createAgent that does not look whether the id is taken
createAgent_exists_overwrite(p) ==
    /\ pc[p] = "ca_exists"
    /\ getBootstrapSystemPrompt(p, [l[p] EXCEPT !.timestamp = Now])
    /\ UNCHANGED <<others, store, calls, turn, appended, added>>

createAgent_exists(p) ==
    /\ pc[p] = "ca_exists"
    /\ IF KeyExistsAgent(l[p].agentId)
       THEN Throw(p, "Conflict")
       ELSE getBootstrapSystemPrompt(p, [l[p] EXCEPT !.timestamp = Now])
    /\ UNCHANGED <<others, store, calls, turn, appended, added>>

createAgent_hset(p) ==
    /\ pc[p] = "ca_hset"
    /\ agentHash' = [agentHash EXCEPT ![l[p].agentId] =
            HSet(@, [id |-> l[p].agentId, name |-> l[p].name,
                     systemPrompt |-> l[p].systemPrompt, mcpServers |-> <<>>,
                     createdAt |-> l[p].timestamp, updatedAt |-> l[p].timestamp])]
    /\ Goto(p, "ca_sadd")
    /\ UNCHANGED <<others, agentsIndex, sessionsSet, sessionHash, messages, calls, l, turn,
                   appended, added>>

\* a createAgent that leaves the agent out of the index
createAgent_sadd_skip(p) ==
    /\ pc[p] = "ca_sadd"
    /\ Goto(p, "es_exists")
    /\ UNCHANGED <<others, store, calls, l, turn, appended, added>>

createAgent_sadd(p) ==
    /\ pc[p] = "ca_sadd"
    /\ agentsIndex' = agentsIndex \cup {l[p].agentId}
    /\ Goto(p, "es_exists")
    /\ UNCHANGED <<others, agentHash, sessionsSet, sessionHash, messages, calls, l, turn,
                   appended, added>>

(***************************************************************************)
(* appendSessionMessage / appendSessionMessages                            *)
(***************************************************************************)
appendSessionMessage(p) ==
    /\ Begin(p, MaxCalls)
    /\ NoTurn(p)
    /\ \E a \in AgentIds, s \in SessionIds, m \in MessageInputs :
         /\ l' = [l EXCEPT ![p] =
                [CallLocals("appendSessionMessage", a, s, "idle", "idle")
                    EXCEPT !.messages = <<m>>]]
         /\ NoteAppend(a, s, <<m>>)
    /\ Goto(p, "assert")
    /\ UNCHANGED <<others, store, added>>

appendSessionMessages(p) ==
    /\ Begin(p, MaxCalls)
    /\ NoTurn(p)
    /\ \E a \in AgentIds, s \in SessionIds, batch \in BatchInputs :
         /\ l' = [l EXCEPT ![p] =
                [CallLocals("appendSessionMessages", a, s, "idle", "idle")
                    EXCEPT !.messages = batch]]
         /\ NoteAppend(a, s, batch)
    /\ Goto(p, "asm_entry")
    /\ UNCHANGED <<others, store, added>>

\* an appendSessionMessages without the early return
appendSessionMessages_entry_always(p) ==
    /\ pc[p] = "asm_entry"
    /\ Goto(p, "assert")
    /\ UNCHANGED <<others, store, calls, l, turn, appended, added>>

\* `if (input.messages.length === 0) return;`
appendSessionMessages_entry(p) ==
    /\ pc[p] = "asm_entry"
    /\ IF Len(l[p].messages) = 0 THEN Return(p, l[p])
       ELSE Goto(p, "assert") /\ UNCHANGED l
    /\ UNCHANGED <<others, store, calls, turn, appended, added>>

\* RPush that pushes at the head
RPush_front(list, batch) == batch \o list
\* RPush that loses a batch pushed onto an existing list
RPush_lost(list, batch) == IF list = <<>> THEN batch ELSE list

\* RPush that pushes the values of a call one by one at the head of the tail
RPush_reversed(list, batch) ==
    list \o [i \in 1..Len(batch) |-> batch[Len(batch) + 1 - i]]

\* redis.rpush(key, ...batch)
RPush(list, batch) == list \o batch

append_rpush(p) ==
    /\ pc[p] = "ap_rpush"
    /\ messages' = [messages EXCEPT ![l[p].agentId][l[p].sessionId] =
            RPush(@, l[p].messages)]
    /\ Goto(p, "ap_hset")
    /\ UNCHANGED <<others, agentsIndex, agentHash, sessionsSet, sessionHash, calls, l, turn,
                   appended, added>>

append_hset(p) ==
    /\ pc[p] = "ap_hset"
    /\ sessionHash' = [sessionHash EXCEPT ![l[p].agentId][l[p].sessionId] =
            HSet(@, [updatedAt |-> l[p].timestamp, lastMessageAt |-> l[p].timestamp])]
    /\ Return(p, l[p])
    /\ UNCHANGED <<others, agentsIndex, agentHash, sessionsSet, messages, calls, turn,
                   appended, added>>

(***************************************************************************)
(* getSessionMessages                                                      *)
(***************************************************************************)
getSessionMessages(p) ==
    /\ Begin(p, MaxCalls)
    /\ NoTurn(p)
    /\ \E a \in AgentIds, s \in SessionIds :
         l' = [l EXCEPT ![p] = CallLocals("getSessionMessages", a, s, "idle", "idle")]
    /\ Goto(p, "assert")
    /\ UNCHANGED <<others, store, appended, added>>

getSessionMessages_lrange(p) ==
    /\ pc[p] = "gm_lrange"
    /\ Return(p, [l[p] EXCEPT !.retMessages = messages[l[p].agentId][l[p].sessionId]])
    /\ UNCHANGED <<others, store, calls, turn, appended, added>>

(***************************************************************************)
(* clearSessionMessages                                                    *)
(***************************************************************************)
clearSessionMessages(p) ==
    /\ Begin(p, MaxCalls)
    /\ NoTurn(p)
    /\ \E a \in AgentIds, s \in SessionIds :
         /\ l' = [l EXCEPT ![p] = CallLocals("clearSessionMessages", a, s, "idle", "idle")]
         /\ NoteClear(a, s)
    /\ Goto(p, "assert")
    /\ UNCHANGED <<others, store>>

\* a del that leaves the list as it is
clearSessionMessages_del_kept(p) ==
    /\ pc[p] = "cl_del"
    /\ Goto(p, "cl_hset")
    /\ UNCHANGED <<others, store, calls, l, turn, appended, added>>

\* a del that removes the lists of all sessions of the agent
clearSessionMessages_del_agent(p) ==
    /\ pc[p] = "cl_del"
    /\ messages' = [messages EXCEPT ![l[p].agentId] = [s \in SessionIds |-> <<>>]]
    /\ Goto(p, "cl_hset")
    /\ UNCHANGED <<others, agentsIndex, agentHash, sessionsSet, sessionHash, calls, l, turn,
                   appended, added>>

clearSessionMessages_del(p) ==
    /\ pc[p] = "cl_del"
    /\ messages' = [messages EXCEPT ![l[p].agentId][l[p].sessionId] = <<>>]
    /\ Goto(p, "cl_hset")
    /\ UNCHANGED <<others, agentsIndex, agentHash, sessionsSet, sessionHash, calls, l, turn,
                   appended, added>>

clearSessionMessages_hset(p) ==
    /\ pc[p] = "cl_hset"
    /\ sessionHash' = [sessionHash EXCEPT ![l[p].agentId][l[p].sessionId] =
            HSet(@, [updatedAt |-> l[p].timestamp,
                     usageInputTokens |-> 0, usageReasoningTokens |-> 0,
                     usageOutputTokens |-> 0, usageTotalTokens |-> 0])]
    /\ Return(p, l[p])
    /\ UNCHANGED <<others, agentsIndex, agentHash, sessionsSet, messages, calls, turn,
                   appended, added>>

(***************************************************************************)
(* getSessionTokenUsage / addSessionTokenUsage                             *)
(***************************************************************************)
getSessionTokenUsage(p) ==
    /\ Begin(p, MaxCalls)
    /\ NoTurn(p)
    /\ \E a \in AgentIds, s \in SessionIds :
         l' = [l EXCEPT ![p] = CallLocals("getSessionTokenUsage", a, s, "idle", "idle")]
    /\ Goto(p, "assert")
    /\ UNCHANGED <<others, store, appended, added>>

addSessionTokenUsage(p) ==
    /\ Begin(p, MaxCalls)
    /\ NoTurn(p)
    /\ \E a \in AgentIds, s \in SessionIds, usage \in UsageInputs :
         /\ l' = [l EXCEPT ![p] =
                [CallLocals("addSessionTokenUsage", a, s, "idle", "idle")
                    EXCEPT !.usage = usage]]
         /\ NoteUsage(a, s, usage)
    /\ Goto(p, "assert")
    /\ UNCHANGED <<others, store, appended>>

\* HGETALL of the session hash; addSessionTokenUsage goes on to compute `next`
getSessionTokenUsage_hgetall(p) ==
    /\ pc[p] = "gu_hgetall"
    /\ LET current == UsageOfHash(sessionHash[l[p].agentId][l[p].sessionId])
       IN  IF l[p].op = "getSessionTokenUsage"
           THEN Return(p, [l[p] EXCEPT !.retUsage = current])
           ELSE /\ l' = [l EXCEPT ![p].current = current, ![p].timestamp = Now,
                                  ![p].retUsage = NextUsage(current, l[p].usage)]
                /\ Goto(p, "au_hset")
    /\ UNCHANGED <<others, store, calls, turn, appended, added>>

addSessionTokenUsage_hset(p) ==
    /\ pc[p] = "au_hset"
    /\ sessionHash' = [sessionHash EXCEPT ![l[p].agentId][l[p].sessionId] =
            HSet(@, [usageInputTokens |-> l[p].retUsage.inputTokens,
                     usageReasoningTokens |-> l[p].retUsage.reasoningTokens,
                     usageOutputTokens |-> l[p].retUsage.outputTokens,
                     usageTotalTokens |-> l[p].retUsage.totalTokens,
                     updatedAt |-> l[p].timestamp])]
    /\ Return(p, l[p])
    /\ UNCHANGED <<others, agentsIndex, agentHash, sessionsSet, messages, calls, turn,
                   appended, added>>

(***************************************************************************)
(* getAgentSystemPrompt, updateAgentSystemPrompt, resetAgentSystemPrompt   *)
(***************************************************************************)
\* getAgentSystemPrompt called by the UI
getAgentSystemPrompt(p) ==
    /\ Begin(p, MaxCalls)
    /\ NoTurn(p)
    /\ \E a \in AgentIds :
         l' = [l EXCEPT ![p] = CallLocals("getAgentSystemPrompt", a, "", "idle", "idle")]
    /\ Goto(p, "assert")
    /\ UNCHANGED <<others, store, appended, added>>

\* lines 248-251: the prompt is trimmed, a blank prompt is turned down
updateAgentSystemPrompt(p) ==
    /\ Begin(p, MaxCalls)
    /\ NoTurn(p)
    /\ \E a \in AgentIds, systemPrompt \in PromptInputs :
         LET me == [CallLocals("updateAgentSystemPrompt", a, "", "idle", "idle")
                        EXCEPT !.systemPrompt = Trim(systemPrompt)]
         IN  IF me.systemPrompt = ""
             THEN /\ l' = [l EXCEPT ![p] = [me EXCEPT !.outcome = "InvalidInput"]]
                  /\ UNCHANGED pc
             ELSE /\ l' = [l EXCEPT ![p] = me]
                  /\ Goto(p, "assert")
    /\ UNCHANGED <<others, store, appended, added>>

resetAgentSystemPrompt(p) ==
    /\ Begin(p, MaxCalls)
    /\ NoTurn(p)
    /\ \E a \in AgentIds :
         l' = [l EXCEPT ![p] = CallLocals("resetAgentSystemPrompt", a, "", "idle", "idle")]
    /\ Goto(p, "assert")
    /\ UNCHANGED <<others, store, appended, added>>

\* the HSET of lines 254-257 and 263-266
updateAgentSystemPrompt_hset(p) ==
    /\ pc[p] = "sp_hset"
    /\ agentHash' = [agentHash EXCEPT ![l[p].agentId] =
            HSet(@, [systemPrompt |-> l[p].systemPrompt, updatedAt |-> l[p].timestamp])]
    /\ Return(p, l[p])
    /\ UNCHANGED <<others, agentsIndex, sessionsSet, sessionHash, messages, calls, turn,
                   appended, added>>

(***************************************************************************)
(* addAgentMcpServer                                                       *)
(***************************************************************************)
addAgentMcpServer(p) ==
    /\ pc[p] = "idle"
    /\ NoTurn(p)
    /\ \E a \in AgentIds, server \in McpServerInputs :
         l' = [l EXCEPT ![p] =
                [CallLocals("addAgentMcpServer", a, DEFAULT_SESSION_ID, "idle", "idle")
                    EXCEPT !.server = server]]
    /\ Goto(p, "assert")
    /\ UNCHANGED <<others, store, calls, appended, added>>

(***************************************************************************)
(* updateAgentMcpServer, deleteAgentMcpServer                              *)
(***************************************************************************)
updateAgentMcpServer(p) ==
    /\ pc[p] = "idle"
    /\ NoTurn(p)
    /\ \E a \in AgentIds, serverId \in McpServerIdInputs, server \in McpServerInputs :
         l' = [l EXCEPT ![p] =
                [CallLocals("updateAgentMcpServer", a, DEFAULT_SESSION_ID, "idle", "idle")
                    EXCEPT !.serverId = serverId, !.server = server]]
    /\ Goto(p, "assert")
    /\ UNCHANGED <<others, store, calls, appended, added>>

deleteAgentMcpServer(p) ==
    /\ pc[p] = "idle"
    /\ NoTurn(p)
    /\ \E a \in AgentIds, serverId \in McpServerIdInputs :
         l' = [l EXCEPT ![p] =
                [CallLocals("deleteAgentMcpServer", a, DEFAULT_SESSION_ID, "idle", "idle")
                    EXCEPT !.serverId = serverId]]
    /\ Goto(p, "assert")
    /\ UNCHANGED <<others, store, calls, appended, added>>

\* saveAgentMcpServers: HSET of the JSON-encoded list; new Date() of line 563
\* was read when the command was issued, after assertAgentExists returned
saveAgentMcpServers(p) ==
    /\ pc[p] = "ms_save"
    /\ agentHash' = [agentHash EXCEPT ![l[p].agentId] =
            HSet(@, [mcpServers |-> l[p].retServers, updatedAt |-> l[p].timestamp])]
    /\ Return(p, l[p])
    /\ UNCHANGED <<others, agentsIndex, sessionsSet, sessionHash, messages, calls, turn,
                   appended, added>>

(***************************************************************************)
(* appendAgentMemory (src/lib/memory.ts): one document per calendar day in *)
(* the agent's search index. The text of a document is the sequence of its *)
(* lines "[<timestamp>] <content>", which the code joins with newlines.    *)
(***************************************************************************)
MemoryInputs == {"fact a", " fact b ", "  "}

\* now.slice(0, 10) of the ISO timestamp of instant `now`
DayOf(now) == now \div TicksPerDay

\* lines 35-42: trim, reject blank content, read the clock
appendAgentMemory(p) ==
    /\ pc[p] = "idle"
    /\ \E a \in AgentIds, raw \in MemoryInputs, passed \in 1..TicksPerDay :
         LET content == Trim(raw)
             now == clock + passed
             me == [CallLocals("appendAgentMemory", a, DEFAULT_SESSION_ID, "idle", "idle")
                       EXCEPT !.content = content, !.timestamp = now]
         IN  /\ now <= MaxClock
             /\ clock' = now
             /\ IF content = ""
                THEN /\ l' = [l EXCEPT ![p] = [me EXCEPT !.outcome = "InvalidInput"]]
                     /\ UNCHANGED pc
                ELSE /\ l' = [l EXCEPT ![p] = me]
                     /\ Goto(p, "am_fetch")
    /\ UNCHANGED memoryIndex
    /\ UNCHANGED <<scope, listing, stored, keyring, files, bootstrapPromptCache,
                   store, calls, turn, appended, added>>

\* line 43: index.fetch({ ids: [dayId] })
appendAgentMemory_fetch(p) ==
    /\ pc[p] = "am_fetch"
    /\ l' = [l EXCEPT ![p].existing =
              {doc \in memoryIndex[l[p].agentId] : doc.id = DayOf(l[p].timestamp)}]
    /\ Goto(p, "am_upsert")
    /\ UNCHANGED <<memoryIndex, clock>>
    /\ UNCHANGED <<scope, listing, stored, keyring, files, bootstrapPromptCache,
                   store, calls, turn, appended, added>>

\* an append that starts the day's document over
NextMemoryDoc_fresh(existing, now, content) ==
    [id |-> DayOf(now), text |-> <<[at |-> now, content |-> content]>>,
     day |-> DayOf(now), createdAt |-> now, updatedAt |-> now, entries |-> 1]

\* the document upserted at lines 46-69
NextMemoryDoc(existing, now, content) ==
    LET fresh == existing = {}
        existingDoc == CHOOSE doc \in existing : TRUE
        previousText == IF fresh THEN <<>> ELSE existingDoc.text
        previousEntries == IF fresh THEN 0 ELSE existingDoc.entries
        previousCreatedAt == IF fresh THEN now ELSE existingDoc.createdAt
    IN  [id |-> DayOf(now),
         text |-> Append(previousText, [at |-> now, content |-> content]),
         day |-> DayOf(now),
         createdAt |-> previousCreatedAt, updatedAt |-> now,
         entries |-> previousEntries + 1]

\* lines 56-75: index.upsert replaces the document of that id
appendAgentMemory_upsert(p) ==
    /\ pc[p] = "am_upsert"
    /\ LET next == NextMemoryDoc(l[p].existing, l[p].timestamp, l[p].content)
       IN  /\ memoryIndex' = [memoryIndex EXCEPT ![l[p].agentId] =
                   {doc \in @ : doc.id # next.id} \cup {next}]
           /\ Return(p, [l[p] EXCEPT !.retEntries = next.entries])
    /\ UNCHANGED clock
    /\ UNCHANGED <<scope, listing, stored, keyring, files, bootstrapPromptCache,
                   store, calls, turn, appended, added>>

\* input.query of searchAgentMemory
QueryInputs == {"fact", "  "}

\* lines 95-105: index.search gives at most three documents of the index;
\* which ones is the ranking of the search service
searchAgentMemory_search(p) ==
    /\ pc[p] = "sm_search"
    /\ \E results \in SUBSET memoryIndex[l[p].agentId] :
         /\ Cardinality(results) <= 3
         /\ Return(p, [l[p] EXCEPT !.results = results])
    /\ UNCHANGED <<memoryIndex, clock>>
    /\ UNCHANGED <<scope, listing, stored, keyring, files, bootstrapPromptCache,
                   store, calls, turn, appended, added>>

\* resetAgentMemory, lines 26-27
resetAgentMemory(p) ==
    /\ pc[p] = "idle"
    /\ \E a \in AgentIds :
         l' = [l EXCEPT ![p] =
                CallLocals("resetAgentMemory", a, DEFAULT_SESSION_ID, "idle", "idle")]
    /\ Goto(p, "rm_reset")
    /\ UNCHANGED <<memoryIndex, clock>>
    /\ UNCHANGED <<scope, listing, stored, keyring, files, bootstrapPromptCache,
                   store, calls, turn, appended, added>>

\* line 28: index.reset() leaves the agent's index without documents
resetAgentMemory_reset(p) ==
    /\ pc[p] = "rm_reset"
    /\ memoryIndex' = [memoryIndex EXCEPT ![l[p].agentId] = {}]
    /\ Return(p, l[p])
    /\ UNCHANGED clock
    /\ UNCHANGED <<scope, listing, stored, keyring, files, bootstrapPromptCache,
                   store, calls, turn, appended, added>>

(***************************************************************************)
(* listAgentMemories (src/lib/memory.ts): pages through index.range. A     *)
(* document is its day identifier, a number; the index of `size` documents *)
(* holds the days 1..size. A cursor is the number of the page.             *)
(***************************************************************************)
\* page.nextCursor is empty
NoCursor == -1
\* the loop bound of line 116
MaxPages == 20

\* the backends listed: one that pages to the end and then gives no cursor,
\* one that always gives a next cursor, one that gives back an earlier cursor
Backends == {"paged", "endless", "cycle"}
IndexSizes == 0..(MaxPages * PageLimit + 1)

\* index.range({ cursor, limit }) of a backend with `size` documents
IndexRange(backend, size, cursor, limit) ==
    LET first == cursor * limit + 1
        last == IF (cursor + 1) * limit < size THEN (cursor + 1) * limit ELSE size
    IN  [documents |-> [k \in 1..(IF last < first THEN 0 ELSE last - first + 1) |->
                          first + k - 1],
         nextCursor |->
            CASE backend = "endless" -> cursor + 1
              [] backend = "cycle" -> IF cursor = 0 THEN 1 ELSE 0
              [] OTHER -> IF (cursor + 1) * limit < size THEN cursor + 1 ELSE NoCursor]

\* memories.sort((a, b) => b.id.localeCompare(a.id)): a stable sort, largest
\* day id first
SortDescending(memories) ==
    LET n == Len(memories)
        before(k) == Cardinality({j \in 1..n : \/ memories[j] > memories[k]
                                               \/ (memories[j] = memories[k] /\ j < k)})
    IN  [r \in 1..n |-> memories[CHOOSE k \in 1..n : before(k) = r - 1]]

\* the loop without the seenCursors test of line 117
listAgentMemories_range_unseen(p) ==
    /\ p \in SeqProcs
    /\ listing.at = "loop"
    /\ listing.i < MaxPages
    /\ LET page == IndexRange(listing.backend, listing.size, listing.cursor, PageLimit)
           me == [listing EXCEPT !.seenCursors = @ \cup {listing.cursor},
                                 !.asked = Append(@, listing.cursor),
                                 !.memories = @ \o page.documents]
       IN  listing' = IF page.nextCursor = NoCursor
                      THEN [me EXCEPT !.at = "sort"]
                      ELSE [me EXCEPT !.cursor = page.nextCursor, !.i = @ + 1]
    /\ UNCHANGED <<scope, memoryIndex, clock, stored, keyring, files, bootstrapPromptCache>>
    /\ UNCHANGED <<store, calls, pc, l, turn, appended, added>>

\* lines 116-138: one pass of the loop that reaches index.range
listAgentMemories_range(p) ==
    /\ p \in SeqProcs
    /\ listing.at = "loop"
    /\ listing.i < MaxPages
    /\ listing.cursor \notin listing.seenCursors
    /\ LET page == IndexRange(listing.backend, listing.size, listing.cursor, PageLimit)
           me == [listing EXCEPT !.seenCursors = @ \cup {listing.cursor},
                                 !.asked = Append(@, listing.cursor),
                                 !.memories = @ \o page.documents]
       IN  listing' = IF page.nextCursor = NoCursor
                      THEN [me EXCEPT !.at = "sort"]
                      ELSE [me EXCEPT !.cursor = page.nextCursor, !.i = @ + 1]
    /\ UNCHANGED <<scope, memoryIndex, clock, stored, keyring, files, bootstrapPromptCache>>
    /\ UNCHANGED <<store, calls, pc, l, turn, appended, added>>

\* the loop is left (bound reached, cursor seen before, no next cursor);
\* line 141
listAgentMemories_return(p) ==
    /\ p \in SeqProcs
    /\ \/ listing.at = "sort"
       \/ /\ listing.at = "loop"
          /\ (listing.i >= MaxPages \/ listing.cursor \in listing.seenCursors)
    /\ listing' = [listing EXCEPT !.at = "done",
                                   !.result = SortDescending(listing.memories)]
    /\ UNCHANGED <<scope, memoryIndex, clock, stored, keyring, files, bootstrapPromptCache>>
    /\ UNCHANGED <<store, calls, pc, l, turn, appended, added>>

(***************************************************************************)
(* startFreshDefaultSessionAction (src/lib/actions.ts)                     *)
(***************************************************************************)
startFreshDefaultSessionAction(p) ==
    /\ Begin(p, MaxCalls)
    /\ NoTurn(p)
    /\ \E a \in AgentIds :
         /\ l' = [l EXCEPT ![p] =
                CallLocals("clearSessionMessages", a, DEFAULT_SESSION_ID, "idle", "idle")]
         /\ NoteClear(a, DEFAULT_SESSION_ID)
    /\ Goto(p, "assert")
    /\ UNCHANGED <<others, store>>

(***************************************************************************)
(* listAgentSessions                                                       *)
(***************************************************************************)
listAgentSessions(p) ==
    /\ Begin(p, MaxCalls)
    /\ NoTurn(p)
    /\ \E a \in AgentIds :
         l' = [l EXCEPT ![p] =
                CallLocals("listAgentSessions", a, DEFAULT_SESSION_ID, "idle", "idle")]
    /\ Goto(p, "assert")
    /\ UNCHANGED <<others, store, appended, added>>

\* SMEMBERS of the session set; an empty set sends the call into ensureSession
listAgentSessions_smembers(p) ==
    /\ pc[p] = "ls_smembers"
    /\ LET sessions == sessionsSet[l[p].agentId]
       IN  IF sessions = {}
           THEN /\ l' = [l EXCEPT ![p].timestamp = Now]
                /\ Goto(p, "es_exists")
           ELSE Return(p, [l[p] EXCEPT !.retSessions = SortSessions(sessions)])
    /\ UNCHANGED <<others, store, calls, turn, appended, added>>

(***************************************************************************)
(* listAgents                                                              *)
(***************************************************************************)
listAgents(p) ==
    /\ Begin(p, MaxCalls)
    /\ NoTurn(p)
    /\ l' = [l EXCEPT ![p] = CallLocals("listAgents", "", DEFAULT_SESSION_ID, "idle", "idle")]
    /\ Goto(p, "la_smembers")
    /\ UNCHANGED <<others, store, appended, added>>

listAgents_smembers(p) ==
    /\ pc[p] = "la_smembers"
    /\ IF agentsIndex = {}
       THEN Return(p, l[p])
       ELSE /\ l' = [l EXCEPT ![p].ids = agentsIndex]
            /\ Goto(p, "la_hgetall")
    /\ UNCHANGED <<others, store, calls, turn, appended, added>>

\* lines 49-58: the HGETALL of one of the ids settles (they are issued
\* together and settle in any order); a record without an id or a name is
\* dropped. After the last one, lines 59-61: the agents by name; agents of
\* the same name stay in the order SMEMBERS gave
listAgents_hgetall(p) ==
    /\ pc[p] = "la_hgetall"
    /\ \E id \in l[p].ids :
         LET record == AgentRecord(id)
             items == IF AgentMissing(record) THEN l[p].items
                      ELSE l[p].items \cup {[key |-> id, id |-> record.id,
                                             name |-> record.name]}
             me == [l[p] EXCEPT !.ids = @ \ {id}, !.items = items]
         IN  IF me.ids # {}
             THEN l' = [l EXCEPT ![p] = me] /\ UNCHANGED pc
             ELSE \E order \in [1..Cardinality(items) -> items] :
                    /\ \A i, j \in DOMAIN order : i # j => order[i] # order[j]
                    /\ \A i, j \in DOMAIN order :
                         i < j => ~NameBefore(order[j], order[i])
                    /\ Return(p, [me EXCEPT !.retAgents =
                           [i \in DOMAIN order |->
                               [id |-> order[i].id, name |-> order[i].name]]])
    /\ UNCHANGED <<others, store, calls, turn, appended, added>>

\* agents are created before their sessions are used
Store_createAgent(p) == calls = 0 /\ createAgent(p)

\* one step of a store function, whoever called it
StoreStep(p) ==
    \/ assertAgentExists(p)
    \/ ensureSession_exists(p) \/ ensureSession_sadd(p)
    \/ ensureSession_hset(p) \/ ensureSession_agent(p)
    \/ createAgent_exists(p) \/ getBootstrapSystemPrompt_readFile(p)
        \/ createAgent_hset(p) \/ createAgent_sadd(p)
    \/ appendSessionMessages_entry(p) \/ append_rpush(p) \/ append_hset(p)
    \/ getSessionMessages_lrange(p)
    \/ clearSessionMessages_del(p) \/ clearSessionMessages_hset(p)
    \/ getSessionTokenUsage_hgetall(p) \/ addSessionTokenUsage_hset(p)
    \/ listAgentSessions_smembers(p)

\* a call from the UI (server actions of src/lib/actions.ts)
StoreCall(p) ==
    \/ Store_createAgent(p)
    \/ appendSessionMessage(p) \/ appendSessionMessages(p)
    \/ getSessionMessages(p) \/ clearSessionMessages(p)
    \/ getSessionTokenUsage(p) \/ addSessionTokenUsage(p)
    \/ startFreshDefaultSessionAction(p)
    \/ listAgentSessions(p)

NextStore == \E p \in SeqProcs : StoreCall(p) \/ StoreStep(p)
SpecStore == Init /\ [][NextStore]_vars

(***************************************************************************)
(* The registry of agents: createAgent may come at any time, between       *)
(* calls that fill the sessions of the agents there are.                   *)
(***************************************************************************)
NextAgents ==
    \E p \in SeqProcs :
        \/ createAgent(p)
        \/ createAgent_exists(p) \/ getBootstrapSystemPrompt_readFile(p)
        \/ createAgent_hset(p) \/ createAgent_sadd(p)
        \/ appendSessionMessage(p) \/ listAgents(p)
        \/ assertAgentExists(p)
        \/ ensureSession_exists(p) \/ ensureSession_sadd(p)
        \/ ensureSession_hset(p) \/ ensureSession_agent(p)
        \/ append_rpush(p) \/ append_hset(p)
        \/ listAgents_smembers(p) \/ listAgents_hgetall(p)
        \/ getAgentSystemPrompt(p)
        \/ updateAgentSystemPrompt(p) \/ updateAgentSystemPrompt_hset(p)
        \/ resetAgentSystemPrompt(p)

SpecAgents == InitAgents /\ [][NextAgents]_vars

(***************************************************************************)
(* The chat route: POST of src/unnamed/part_001. The handler is a caller   *)
(* of the store functions above; between two of them it is at one of the   *)
(* "t_" locations. OPENROUTER_API_KEY and OPENROUTER_MODEL are set.        *)
(***************************************************************************)
\* request bodies
ChatAgentInputs == {"ops", " ops ", "", "nobody"}
ChatSessionInputs == {"", "s2"}
ChatContentInputs == {"hello", "  "}

\* the handler calls store function `op`
TurnCall(p, op, ret, exc) ==
    CallLocals(op, turn[p].agentId, turn[p].sessionId, ret, exc)

\* what the session holds when the request arrives
SessionNow(a, s) ==
    IF a \in AgentIds
    THEN [messages |-> messages[a][s], usage |-> UsageOfHash(sessionHash[a][s])]
    ELSE [messages |-> <<>>, usage |-> ZeroUsage]

\* a POST that leaves the user message for later and goes on to load the context
POST_noUserAppend(p) ==
    /\ Begin(p, MaxTurns)
    /\ \E rawAgent \in ChatAgentInputs, rawSession \in ChatSessionInputs,
          rawContent \in ChatContentInputs :
         LET agentId == Trim(rawAgent)
             sessionId == IF Trim(rawSession) = "" THEN DEFAULT_SESSION_ID
                          ELSE Trim(rawSession)
             content == Trim(rawContent)
             me == [IdleTurn EXCEPT !.agentId = agentId, !.sessionId = sessionId,
                                    !.content = content,
                                    !.pre = SessionNow(agentId, sessionId)]
         IN  IF agentId = "" \/ content = ""
             THEN /\ turn' = [turn EXCEPT ![p] = [me EXCEPT !.response = "400"]]
                  /\ l' = [l EXCEPT ![p] = IdleLocals]
                  /\ UNCHANGED pc
             ELSE /\ turn' = [turn EXCEPT ![p] = me]
                  /\ l' = [l EXCEPT ![p] = IdleLocals]
                  /\ Goto(p, "t_messages")
    /\ UNCHANGED <<others, store, appended, added>>

\* a POST that appends whatever it is given
POST_noValidation(p) ==
    /\ Begin(p, MaxTurns)
    /\ \E rawAgent \in ChatAgentInputs, rawSession \in ChatSessionInputs,
          rawContent \in ChatContentInputs :
         LET agentId == Trim(rawAgent)
             sessionId == IF Trim(rawSession) = "" THEN DEFAULT_SESSION_ID
                          ELSE Trim(rawSession)
             content == Trim(rawContent)
             me == [IdleTurn EXCEPT !.agentId = agentId, !.sessionId = sessionId,
                                    !.content = content,
                                    !.pre = SessionNow(agentId, sessionId)]
         IN  /\ turn' = [turn EXCEPT ![p] = me]
             /\ l' = [l EXCEPT ![p] =
                   [CallLocals("appendSessionMessage", agentId, sessionId,
                               "t_messages", "t_reject")
                       EXCEPT !.messages = <<UserMsg(content)>>]]
             /\ NoteAppend(agentId, sessionId, <<UserMsg(content)>>)
             /\ Goto(p, "assert")
    /\ UNCHANGED <<others, store, added>>

\* lines 49-71: parse and validate the body, append the user message
POST(p) ==
    /\ Begin(p, MaxTurns)
    /\ \E rawAgent \in ChatAgentInputs, rawSession \in ChatSessionInputs,
          rawContent \in ChatContentInputs :
         LET agentId == Trim(rawAgent)
             sessionId == IF Trim(rawSession) = "" THEN DEFAULT_SESSION_ID
                          ELSE Trim(rawSession)
             content == Trim(rawContent)
             me == [IdleTurn EXCEPT !.agentId = agentId, !.sessionId = sessionId,
                                    !.content = content,
                                    !.pre = SessionNow(agentId, sessionId)]
         IN  IF agentId = "" \/ content = ""
             THEN /\ turn' = [turn EXCEPT ![p] = [me EXCEPT !.response = "400"]]
                  /\ l' = [l EXCEPT ![p] = IdleLocals]
                  /\ UNCHANGED <<pc, appended>>
             ELSE /\ turn' = [turn EXCEPT ![p] = me]
                  /\ l' = [l EXCEPT ![p] =
                        [CallLocals("appendSessionMessage", agentId, sessionId,
                                    "t_messages", "t_reject")
                            EXCEPT !.messages = <<UserMsg(content)>>]]
                  /\ NoteAppend(agentId, sessionId, <<UserMsg(content)>>)
                  /\ Goto(p, "assert")
    /\ UNCHANGED <<others, store, added>>

\* an exception leaves POST: the framework answers 500, nothing else runs
POST_reject(p) ==
    /\ pc[p] = "t_reject"
    /\ turn' = [turn EXCEPT ![p].response = "500"]
    /\ Goto(p, "idle")
    /\ UNCHANGED <<others, store, calls, l, appended, added>>

\* line 73
POST_getSessionMessages(p) ==
    /\ pc[p] = "t_messages"
    /\ l' = [l EXCEPT ![p] = TurnCall(p, "getSessionMessages", "t_system", "t_reject")]
    /\ Goto(p, "assert")
    /\ UNCHANGED <<others, store, calls, turn, appended, added>>

\* line 74
POST_getAgentSystemPrompt(p) ==
    /\ pc[p] = "t_system"
    /\ turn' = [turn EXCEPT ![p].messages = l[p].retMessages]
    /\ l' = [l EXCEPT ![p] = TurnCall(p, "getAgentSystemPrompt", "t_servers", "t_reject")]
    /\ Goto(p, "assert")
    /\ UNCHANGED <<others, store, calls, appended, added>>

\* lines 75-77
POST_listAgentMcpServers(p) ==
    /\ pc[p] = "t_servers"
    /\ turn' = [turn EXCEPT ![p].system = l[p].retPrompt]
    /\ l' = [l EXCEPT ![p] = TurnCall(p, "listAgentMcpServers", "t_enabled", "t_reject")]
    /\ Goto(p, "assert")
    /\ UNCHANGED <<others, store, calls, appended, added>>

\* a filter that lets every configured server through
EnabledOnly_all(servers) == servers

\* .filter((server) => server.enabled)
RECURSIVE EnabledOnly(_)
EnabledOnly(servers) ==
    IF servers = <<>> THEN <<>>
    ELSE IF Head(servers).enabled
         THEN <<Head(servers)>> \o EnabledOnly(Tail(servers))
         ELSE EnabledOnly(Tail(servers))

POST_enabledMcpServers(p) ==
    /\ pc[p] = "t_enabled"
    /\ turn' = [turn EXCEPT ![p].servers = EnabledOnly(l[p].retServers),
                            ![p].tools = {[name |-> n, owner |-> <<>>] : n \in LocalToolNames},
                            ![p].discovery = TRUE]
    /\ Goto(p, "t_connect")
    /\ UNCHANGED <<others, store, calls, l, appended, added>>

(***************************************************************************)
(* Tool discovery, lines 174-198. The server the loop is at is the one     *)
(* after the clients opened so far.                                        *)
(***************************************************************************)
\* closeMcpClients that gives up at the first client
closeMcpClients_none(clients) == {clients}

\* a cleanup that closes the clients one after the other and gives up at the
\* first close that fails
RECURSIVE closeMcpClients_sequential(_)
closeMcpClients_sequential(clients) ==
    IF clients = <<>> THEN {<<>>}
    ELSE { <<[Head(clients) EXCEPT !.state = "closed"]>> \o rest :
             rest \in closeMcpClients_sequential(Tail(clients)) }
         \cup { <<[Head(clients) EXCEPT !.state = "close_failed"]>> \o Tail(clients) }

\* closeMcpClients: Promise.allSettled over close() of every client; each
\* close settles either way
RECURSIVE closeMcpClients(_)
closeMcpClients(clients) ==
    IF clients = <<>> THEN {<<>>}
    ELSE { <<[Head(clients) EXCEPT !.state = st]>> \o rest :
             st \in {"closed", "close_failed"}, rest \in closeMcpClients(Tail(clients)) }

\* createMCPClient resolves: the client is pushed
POST_createMCPClient(p) ==
    /\ pc[p] = "t_connect"
    /\ Len(turn[p].clients) < Len(turn[p].servers)
    /\ turn' = [turn EXCEPT ![p].clients =
            Append(@, [server |-> turn[p].servers[Len(turn[p].clients) + 1].id,
                       state |-> "open"])]
    /\ Goto(p, "t_tools")
    /\ UNCHANGED <<others, store, calls, l, appended, added>>

\* createMCPClient rejects
POST_createMCPClient_fails(p) ==
    /\ pc[p] = "t_connect"
    /\ Len(turn[p].clients) < Len(turn[p].servers)
    /\ turn' = [turn EXCEPT ![p].initFailed = TRUE]
    /\ Goto(p, "t_initfail")
    /\ UNCHANGED <<others, store, calls, l, appended, added>>

\* client.tools() resolves: its tools are registered, the loop goes on
POST_clientTools(p) ==
    /\ pc[p] = "t_tools"
    /\ LET server == turn[p].servers[Len(turn[p].clients)]
       IN  turn' = [turn EXCEPT ![p].tools =
                       RegisterTools(@, server.id, AdvertisedTools(server.id))]
    /\ Goto(p, "t_connect")
    /\ UNCHANGED <<others, store, calls, l, appended, added>>

\* client.tools() rejects
POST_clientTools_fails(p) ==
    /\ pc[p] = "t_tools"
    /\ turn' = [turn EXCEPT ![p].initFailed = TRUE]
    /\ Goto(p, "t_initfail")
    /\ UNCHANGED <<others, store, calls, l, appended, added>>

\* the catch of lines 190-198
POST_initCatch(p) ==
    /\ pc[p] = "t_initfail"
    /\ \E closed \in closeMcpClients(turn[p].clients) :
         turn' = [turn EXCEPT ![p].clients = closed, ![p].response = "500"]
    /\ Goto(p, "idle")
    /\ UNCHANGED <<others, store, calls, l, appended, added>>

(***************************************************************************)
(* Generation and streaming, lines 200-244.                                *)
(***************************************************************************)
\* the tool loop of agent.stream calls a local tool (lines 79-172) while
\* start() waits for the text stream; what execute() returns or throws goes
\* back to the loop. A tool call is an operation of its own: it is started
\* while the operations allowed leave room for it beside the turns allowed
ToolCall(p) ==
    /\ pc[p] = "t_pump"
    /\ calls + MaxTurns <= MaxCalls
    /\ calls' = calls + 1

\* the memory argument of memory_add
ToolMemoryInputs == {"fact a", "  "}

\* lines 87-92
sessions_list(p) ==
    /\ ToolCall(p)
    /\ l' = [l EXCEPT ![p] = CallLocals("listAgentSessions", turn[p].agentId,
                                        DEFAULT_SESSION_ID, "t_pump", "t_pump")]
    /\ Goto(p, "assert")
    /\ UNCHANGED <<others, store, turn, appended, added>>

\* lines 108-118, and lines 248-251 of updateAgentSystemPrompt
update_system_prompt(p) ==
    /\ ToolCall(p)
    /\ \E systemPrompt \in PromptInputs :
         LET me == [TurnCall(p, "updateAgentSystemPrompt", "t_pump", "t_pump")
                        EXCEPT !.systemPrompt = Trim(systemPrompt)]
         IN  IF me.systemPrompt = ""
             THEN /\ l' = [l EXCEPT ![p] = IdleLocals]
                  /\ UNCHANGED pc
             ELSE /\ l' = [l EXCEPT ![p] = me]
                  /\ Goto(p, "assert")
    /\ UNCHANGED <<others, store, turn, appended, added>>

\* lines 133-145, and lines 35-42 of appendAgentMemory
memory_add(p) ==
    /\ ToolCall(p)
    /\ \E memory \in ToolMemoryInputs :
         LET content == Trim(memory)
             now == clock + 1
             me == [TurnCall(p, "appendAgentMemory", "t_pump", "t_pump")
                       EXCEPT !.content = content, !.timestamp = now]
         IN  /\ now <= MaxClock
             /\ clock' = now
             /\ IF content = ""
                THEN /\ l' = [l EXCEPT ![p] = IdleLocals]
                     /\ UNCHANGED pc
                ELSE /\ l' = [l EXCEPT ![p] = me]
                     /\ Goto(p, "am_fetch")
    /\ UNCHANGED memoryIndex
    /\ UNCHANGED <<scope, listing, stored, keyring, files, bootstrapPromptCache,
                   store, turn, appended, added>>

\* lines 161-170, and lines 89-94 of searchAgentMemory
memory_search(p) ==
    /\ ToolCall(p)
    /\ \E query \in QueryInputs :
         LET me == [TurnCall(p, "searchAgentMemory", "t_pump", "t_pump")
                        EXCEPT !.content = Trim(query)]
         IN  IF me.content = ""
             THEN /\ l' = [l EXCEPT ![p] = IdleLocals]
                  /\ UNCHANGED pc
             ELSE /\ l' = [l EXCEPT ![p] = me]
                  /\ Goto(p, "sm_search")
    /\ UNCHANGED <<others, store, turn, appended, added>>

\* a command of the store or of the search index rejects inside execute():
\* the tool call throws at that command, and what it wrote before stays
execute_fails(p) ==
    /\ pc[p] \in {"assert", "ls_smembers", "es_exists", "es_sadd", "es_hset", "es_agent",
                  "sp_hset", "am_fetch", "am_upsert", "sm_search"}
    /\ l[p].exc = "t_pump"
    /\ Throw(p, "StoreError")
    /\ UNCHANGED <<others, store, calls, turn, appended, added>>

\* agent.stream resolves: the ReadableStream is built, its start() runs and
\* the Response is returned
POST_agentStream(p) ==
    /\ pc[p] = "t_connect"
    /\ Len(turn[p].clients) = Len(turn[p].servers)
    /\ turn' = [turn EXCEPT ![p].modelCalled = TRUE, ![p].response = "200",
                            ![p].stream = "readable"]
    /\ Goto(p, "t_pump")
    /\ UNCHANGED <<others, store, calls, l, appended, added>>

\* agent.stream rejects: line 206 is outside every try
POST_agentStream_fails(p) ==
    /\ pc[p] = "t_connect"
    /\ Len(turn[p].clients) = Len(turn[p].servers)
    /\ turn' = [turn EXCEPT ![p].modelCalled = TRUE, ![p].generationFailed = TRUE]
    /\ Goto(p, "t_reject")
    /\ UNCHANGED <<others, store, calls, l, appended, added>>

\* the caller cancels the body or disconnects while the handler still runs
\* (seen when start() is next at one of its own awaits)
Cancel(p) ==
    /\ pc[p] \in {"t_pump", "t_response", "t_usage", "t_close"}
    /\ turn[p].stream = "readable"
    /\ turn' = [turn EXCEPT ![p].stream = "cancelled"]
    /\ UNCHANGED <<others, store, calls, pc, l, appended, added>>

\* textStream yields a chunk; controller.enqueue throws once the stream is
\* no longer readable
start_enqueue(p) ==
    /\ pc[p] = "t_pump"
    /\ turn[p].chunks < MaxChunks
    /\ IF turn[p].stream = "readable"
       THEN /\ turn' = [turn EXCEPT ![p].chunks = @ + 1]
            /\ UNCHANGED pc
       ELSE /\ turn' = [turn EXCEPT ![p].deliveryFailed = TRUE]
            /\ Goto(p, "t_catch")
    /\ UNCHANGED <<others, store, calls, l, appended, added>>

\* textStream throws: the generation failed
start_textStream_fails(p) ==
    /\ pc[p] = "t_pump"
    /\ turn' = [turn EXCEPT ![p].generationFailed = TRUE]
    /\ Goto(p, "t_catch")
    /\ UNCHANGED <<others, store, calls, l, appended, added>>

\* textStream ends
start_textStream_ends(p) ==
    /\ pc[p] = "t_pump"
    /\ Goto(p, "t_response")
    /\ UNCHANGED <<others, store, calls, l, turn, appended, added>>

\* await streamResult.response resolves; appendSessionMessages is called
start_appendSessionMessages(p) ==
    /\ pc[p] = "t_response"
    /\ \E response \in ResponseInputs :
         /\ turn' = [turn EXCEPT ![p].respMessages = response]
         /\ l' = [l EXCEPT ![p] =
                [TurnCall(p, "appendSessionMessages", "t_usage", "t_catch")
                    EXCEPT !.messages = response]]
         /\ NoteAppend(turn[p].agentId, turn[p].sessionId, response)
    /\ Goto(p, "asm_entry")
    /\ UNCHANGED <<others, store, calls, added>>

\* await streamResult.response rejects: the generation failed
start_response_fails(p) ==
    /\ pc[p] = "t_response"
    /\ turn' = [turn EXCEPT ![p].generationFailed = TRUE]
    /\ Goto(p, "t_catch")
    /\ UNCHANGED <<others, store, calls, l, appended, added>>

\* a Redis command of appendSessionMessages or addSessionTokenUsage rejects:
\* the call throws at that command into the catch of start(), and what its
\* earlier commands wrote stays
start_store_fails(p) ==
    /\ pc[p] \in {"assert", "es_exists", "es_sadd", "es_hset", "es_agent",
                  "ap_rpush", "ap_hset", "gu_hgetall", "au_hset"}
    /\ l[p].exc = "t_catch"
    /\ turn' = [turn EXCEPT ![p].persistFailed = TRUE]
    /\ Throw(p, "StoreError")
    /\ UNCHANGED <<others, store, calls, appended, added>>

\* await streamResult.totalUsage rejects (line 222): the response has
\* resolved and its messages are appended by then, so the generation itself
\* has not failed; the rejection is recorded as a failure to obtain the usage
start_totalUsage_fails(p) ==
    /\ pc[p] = "t_usage"
    /\ turn' = [turn EXCEPT ![p].usageFailed = TRUE]
    /\ Goto(p, "t_catch")
    /\ UNCHANGED <<others, store, calls, l, appended, added>>

\* a start() that closes the stream as soon as the messages are appended
start_addSessionTokenUsage_late(p) ==
    /\ pc[p] = "t_usage"
    /\ \E usage \in UsageInputs : turn' = [turn EXCEPT ![p].usage = usage]
    /\ Goto(p, "t_close")
    /\ UNCHANGED <<others, store, calls, l, appended, added>>

\* await streamResult.totalUsage; addSessionTokenUsage is called
start_addSessionTokenUsage(p) ==
    /\ pc[p] = "t_usage"
    /\ \E usage \in UsageInputs :
         /\ turn' = [turn EXCEPT ![p].usage = usage]
         /\ l' = [l EXCEPT ![p] =
                [TurnCall(p, "addSessionTokenUsage", "t_close", "t_catch")
                    EXCEPT !.usage = usage]]
         /\ NoteUsage(turn[p].agentId, turn[p].sessionId, usage)
    /\ Goto(p, "assert")
    /\ UNCHANGED <<others, store, calls, appended>>

\* both finalize calls have returned; controller.close() throws when the
\* stream is no longer readable
start_close(p) ==
    /\ pc[p] = "t_close"
    /\ IF turn[p].stream = "readable"
       THEN /\ turn' = [turn EXCEPT ![p].stream = "closed", ![p].finalized = TRUE]
            /\ Goto(p, "t_finally")
       ELSE /\ turn' = [turn EXCEPT ![p].finalized = TRUE]
            /\ Goto(p, "t_catch")
    /\ UNCHANGED <<others, store, calls, l, appended, added>>

\* a catch that swallows the error
start_catch_silent(p) ==
    /\ pc[p] = "t_catch"
    /\ Goto(p, "t_finally")
    /\ UNCHANGED <<others, store, calls, l, turn, appended, added>>

\* catch: controller.error(error) errors a readable stream, else does nothing
start_catch(p) ==
    /\ pc[p] = "t_catch"
    /\ turn' = [turn EXCEPT ![p].stream = IF @ = "readable" THEN "errored" ELSE @]
    /\ Goto(p, "t_finally")
    /\ UNCHANGED <<others, store, calls, l, appended, added>>

\* finally: closeMcpClients(mcpClients)
start_finally(p) ==
    /\ pc[p] = "t_finally"
    /\ \E closed \in closeMcpClients(turn[p].clients) :
         turn' = [turn EXCEPT ![p].clients = closed]
    /\ Goto(p, "idle")
    /\ UNCHANGED <<others, store, calls, l, appended, added>>

TurnStep(p) ==
    \/ POST_reject(p)
    \/ POST_getSessionMessages(p) \/ POST_getAgentSystemPrompt(p)
    \/ POST_listAgentMcpServers(p) \/ POST_enabledMcpServers(p)
    \/ POST_createMCPClient(p) \/ POST_createMCPClient_fails(p)
    \/ POST_clientTools(p) \/ POST_clientTools_fails(p) \/ POST_initCatch(p)
    \/ POST_agentStream(p) \/ POST_agentStream_fails(p)
    \/ Cancel(p)
    \/ start_enqueue(p) \/ start_textStream_fails(p) \/ start_textStream_ends(p)
    \/ start_appendSessionMessages(p) \/ start_response_fails(p) \/ start_store_fails(p)
    \/ start_addSessionTokenUsage(p) \/ start_totalUsage_fails(p)
    \/ start_close(p) \/ start_catch(p) \/ start_finally(p)
    \/ sessions_list(p) \/ update_system_prompt(p) \/ memory_add(p) \/ memory_search(p)
    \/ execute_fails(p)

\* the store functions a turn goes through
TurnStoreStep(p) ==
    \/ assertAgentExists(p)
    \/ ensureSession_exists(p) \/ ensureSession_sadd(p)
    \/ ensureSession_hset(p) \/ ensureSession_agent(p)
    \/ createAgent_exists(p) \/ getBootstrapSystemPrompt_readFile(p)
        \/ createAgent_hset(p) \/ createAgent_sadd(p)
    \/ appendSessionMessages_entry(p) \/ append_rpush(p) \/ append_hset(p)
    \/ getSessionMessages_lrange(p)
    \/ getSessionTokenUsage_hgetall(p) \/ addSessionTokenUsage_hset(p)
    \/ saveAgentMcpServers(p)
    \/ listAgentSessions_smembers(p) \/ updateAgentSystemPrompt_hset(p)
    \/ appendAgentMemory_fetch(p) \/ appendAgentMemory_upsert(p)
    \/ searchAgentMemory_search(p)

(***************************************************************************)
(* Specifications.                                                         *)
(*   Spec      one caller: agents are created and configured, turns run    *)
(*   SpecStore one caller: the session operations of the store             *)
(***************************************************************************)

\* the agents the turns of Spec talk to; the agent is created and its servers
\* are configured before it is talked to
TurnAgents == {Trim(a) : a \in ChatAgentInputs} \cap AgentIds
Setup_createAgent(p) == calls = 0 /\ createAgent(p) /\ l'[p].agentId \in TurnAgents \cup {""}
Setup_addAgentMcpServer(p) ==
    /\ calls = 0 /\ addAgentMcpServer(p)
    /\ l'[p].agentId \in TurnAgents /\ l'[p].server \in ServerInputs

\* the server configuration of one agent, edited by one caller
NextMcp ==
    \E p \in SeqProcs :
        \/ Setup_createAgent(p)
        \/ createAgent_exists(p) \/ getBootstrapSystemPrompt_readFile(p)
        \/ createAgent_hset(p) \/ createAgent_sadd(p)
        \/ ensureSession_exists(p) \/ ensureSession_sadd(p)
        \/ ensureSession_hset(p) \/ ensureSession_agent(p)
        \/ addAgentMcpServer(p) \/ updateAgentMcpServer(p) \/ deleteAgentMcpServer(p)
        \/ assertAgentExists(p) \/ saveAgentMcpServers(p)

SpecMcp == Init /\ [][NextMcp]_vars

\* the memory index, written by one caller
NextMemory ==
    \E p \in SeqProcs :
        \/ appendAgentMemory(p)
        \/ appendAgentMemory_fetch(p)
        \/ appendAgentMemory_upsert(p)
        \/ resetAgentMemory(p) \/ resetAgentMemory_reset(p)

SpecMemory == Init /\ [][NextMemory]_vars

\* the memory index, written by two callers (memory_add of concurrent turns)
NextMemoryConc ==
    \E p \in Procs :
        \/ appendAgentMemory(p)
        \/ appendAgentMemory_fetch(p)
        \/ appendAgentMemory_upsert(p)
        \/ resetAgentMemory(p) \/ resetAgentMemory_reset(p)

SpecMemoryConc == Init /\ [][NextMemoryConc]_vars

\* ids are put together from these pieces: none of them is blank, some
\* contain ':' or end in ':sessions'
IdPieces == {<<"a">>, <<"b">>, <<":">>, <<":", "s", "e", "s", "s", "i", "o", "n", "s">>}
RECURSIVE IdsOf(_)
IdsOf(n) == IF n = 1 THEN IdPieces ELSE {id \o piece : id \in IdsOf(n - 1), piece \in IdPieces}
KeyAgentIds == UNION {IdsOf(n) : n \in 1..MaxIdPieces}
KeySessionIds == IdPieces

\* what is stored under a key: an agent record, an agent's session set, a
\* session record, a session's message log
KeyEntities ==
    { [kind |-> k, agentId |-> a, sessionId |-> <<>>] :
        k \in {"agent", "sessions"}, a \in KeyAgentIds }
    \cup { [kind |-> k, agentId |-> a, sessionId |-> s] :
              k \in {"session", "messages"}, a \in KeyAgentIds, s \in KeySessionIds }

\* the key the store functions use for the entity
KeyOf(entity) ==
    CASE entity.kind = "agent" -> agentKey(entity.agentId)
      [] entity.kind = "sessions" -> agentSessionsKey(entity.agentId)
      [] entity.kind = "session" -> sessionKey(entity.agentId, entity.sessionId)
      [] OTHER -> sessionMessagesKey(entity.agentId, entity.sessionId)

\* the keys of two entities are computed
InitKeys ==
    /\ agentsIndex = {}
    /\ agentHash = [a \in AgentIds |-> EmptyAgentHash]
    /\ sessionsSet = [a \in AgentIds |-> {}]
    /\ sessionHash = [a \in AgentIds |-> [s \in SessionIds |-> EmptySessionHash]]
    /\ messages = [a \in AgentIds |-> [s \in SessionIds |-> <<>>]]
    /\ calls = 0
    /\ pc = [p \in Procs |-> "idle"]
    /\ l = [p \in Procs |-> IdleLocals]
    /\ turn = [p \in Procs |-> IdleTurn]
    /\ appended = [a \in AgentIds |-> [s \in SessionIds |-> <<>>]]
    /\ added = [a \in AgentIds |-> [s \in SessionIds |-> NothingAdded]]
    /\ scope = IdleScope
    /\ memoryIndex = [a \in AgentIds |-> {}]
    /\ files = ShippedFiles
    /\ bootstrapPromptCache = NoStr
    /\ clock = 0
    /\ listing = IdleListing
    /\ stored = IdleStored
    /\ \E first \in KeyEntities, second \in KeyEntities :
         keyring = [IdleKeyring EXCEPT !.first = first, !.second = second, !.at = "ids"]

\* the store functions build the keys of the two entities
computeKeys ==
    /\ keyring.at = "ids"
    /\ keyring' = [keyring EXCEPT !.at = "keys",
                                   !.firstKey = KeyOf(keyring.first),
                                   !.secondKey = KeyOf(keyring.second)]
    /\ UNCHANGED <<scope, memoryIndex, clock, listing, stored, files, bootstrapPromptCache>>
    /\ UNCHANGED <<store, calls, pc, l, turn, appended, added>>

NextKeys == computeKeys

SpecKeys == InitKeys /\ [][NextKeys]_vars

\* a stored mcpServers value is read
InitParse ==
    /\ agentsIndex = {}
    /\ agentHash = [a \in AgentIds |-> EmptyAgentHash]
    /\ sessionsSet = [a \in AgentIds |-> {}]
    /\ sessionHash = [a \in AgentIds |-> [s \in SessionIds |-> EmptySessionHash]]
    /\ messages = [a \in AgentIds |-> [s \in SessionIds |-> <<>>]]
    /\ calls = 0
    /\ pc = [p \in Procs |-> "idle"]
    /\ l = [p \in Procs |-> IdleLocals]
    /\ turn = [p \in Procs |-> IdleTurn]
    /\ appended = [a \in AgentIds |-> [s \in SessionIds |-> <<>>]]
    /\ added = [a \in AgentIds |-> [s \in SessionIds |-> NothingAdded]]
    /\ scope = IdleScope
    /\ memoryIndex = [a \in AgentIds |-> {}]
    /\ files = ShippedFiles
    /\ bootstrapPromptCache = NoStr
    /\ clock = 0
    /\ listing = IdleListing
    /\ \E value \in StoredValues : stored = [IdleStored EXCEPT !.value = value, !.at = "read"]
    /\ keyring = IdleKeyring

\* parseStoredMcpServers(agent.mcpServers), as listAgentMcpServers and the
\* add / update / delete functions call it
readStoredMcpServers ==
    /\ stored.at = "read"
    /\ stored' = [stored EXCEPT !.at = "parsed", !.servers = parseStoredValue(stored.value)]
    /\ UNCHANGED <<scope, memoryIndex, clock, listing, keyring, files, bootstrapPromptCache>>
    /\ UNCHANGED <<store, calls, pc, l, turn, appended, added>>

NextParse == readStoredMcpServers

SpecParse == InitParse /\ [][NextParse]_vars

\* listAgentMemories is called on an index of some size behind some backend
InitList ==
    /\ agentsIndex = {}
    /\ agentHash = [a \in AgentIds |-> EmptyAgentHash]
    /\ sessionsSet = [a \in AgentIds |-> {}]
    /\ sessionHash = [a \in AgentIds |-> [s \in SessionIds |-> EmptySessionHash]]
    /\ messages = [a \in AgentIds |-> [s \in SessionIds |-> <<>>]]
    /\ calls = 0
    /\ pc = [p \in Procs |-> "idle"]
    /\ l = [p \in Procs |-> IdleLocals]
    /\ turn = [p \in Procs |-> IdleTurn]
    /\ appended = [a \in AgentIds |-> [s \in SessionIds |-> <<>>]]
    /\ added = [a \in AgentIds |-> [s \in SessionIds |-> NothingAdded]]
    /\ scope = IdleScope
    /\ memoryIndex = [a \in AgentIds |-> {}]
    /\ files = ShippedFiles
    /\ bootstrapPromptCache = NoStr
    /\ clock = 0
    /\ \E backend \in Backends, size \in IndexSizes :
         listing = [IdleListing EXCEPT !.backend = backend, !.size = size, !.at = "loop"]
    /\ stored = IdleStored
    /\ keyring = IdleKeyring

NextList == \E p \in SeqProcs : listAgentMemories_range(p) \/ listAgentMemories_return(p)

SpecList == InitList /\ [][NextList]_vars

Next ==
    \E p \in SeqProcs :
        \/ Setup_createAgent(p) \/ Setup_addAgentMcpServer(p) \/ POST(p)
        \/ TurnStep(p) \/ TurnStoreStep(p)

Spec == Init /\ [][Next]_vars

\* the steps of a turn that wait for nothing but the handler itself, the
\* store and the model; what is left out is the remote tool server settling
\* createMCPClient or client.tools(), and the caller going away
TurnProgress(p) ==
    \/ POST(p) \/ POST_reject(p)
    \/ POST_getSessionMessages(p) \/ POST_getAgentSystemPrompt(p)
    \/ POST_listAgentMcpServers(p) \/ POST_enabledMcpServers(p)
    \/ POST_initCatch(p)
    \/ POST_agentStream(p) \/ POST_agentStream_fails(p)
    \/ start_enqueue(p) \/ start_textStream_fails(p) \/ start_textStream_ends(p)
    \/ start_appendSessionMessages(p) \/ start_response_fails(p) \/ start_store_fails(p)
    \/ start_addSessionTokenUsage(p) \/ start_totalUsage_fails(p)
    \/ start_close(p) \/ start_catch(p) \/ start_finally(p)
    \/ TurnStoreStep(p)

\* Spec with every component but the remote tool servers answering in time
SpecLive == Init /\ [][Next]_vars /\ \A p \in SeqProcs : WF_vars(TurnProgress(p))

(***************************************************************************)
(* Interleaved callers: two addSessionTokenUsage calls may overlap between *)
(* their awaits. The agent is created before they start.                   *)
(***************************************************************************)
AllIdle == \A q \in Procs : pc[q] = "idle"

Conc_createAgent(p) == calls = 0 /\ AllIdle /\ createAgent(p)
Conc_addSessionTokenUsage(p) ==
    /\ \A q \in Procs : pc[q] = "idle" \/ l[q].op # "createAgent"
    /\ addSessionTokenUsage(p)

NextConc ==
    \E p \in Procs :
        \/ Conc_createAgent(p)
        \/ createAgent_exists(p) \/ getBootstrapSystemPrompt_readFile(p)
        \/ createAgent_hset(p) \/ createAgent_sadd(p)
        \/ ensureSession_exists(p) \/ ensureSession_sadd(p)
        \/ ensureSession_hset(p) \/ ensureSession_agent(p)
        \/ Conc_addSessionTokenUsage(p)
        \/ assertAgentExists(p)
        \/ getSessionTokenUsage_hgetall(p) \/ addSessionTokenUsage_hset(p)

SpecConc == Init /\ [][NextConc]_vars

\* two callers append to the sessions of an agent and add usage to them while
\* the other is between its awaits
Race_createAgent(p) == AllIdle /\ Setup_createAgent(p)
Race_call(p) ==
    /\ \A q \in Procs : pc[q] = "idle" \/ l[q].op # "createAgent"
    /\ \/ appendSessionMessage(p) \/ appendSessionMessages(p)
       \/ addSessionTokenUsage(p)
    /\ l'[p].agentId \in TurnAgents /\ l'[p].sessionId = "s2"

NextRace ==
    \E p \in Procs :
        \/ Race_createAgent(p)
        \/ createAgent_exists(p) \/ getBootstrapSystemPrompt_readFile(p)
        \/ createAgent_hset(p) \/ createAgent_sadd(p)
        \/ Race_call(p)
        \/ appendSessionMessages_entry(p) \/ assertAgentExists(p)
        \/ ensureSession_exists(p) \/ ensureSession_sadd(p)
        \/ ensureSession_hset(p) \/ ensureSession_agent(p)
        \/ append_rpush(p) \/ append_hset(p)
        \/ getSessionTokenUsage_hgetall(p) \/ addSessionTokenUsage_hset(p)

SpecRace == Init /\ [][NextRace]_vars

\* two callers create agents while the other is between its awaits
NextCreate ==
    \E p \in Procs :
        \/ createAgent(p)
        \/ createAgent_exists(p) \/ getBootstrapSystemPrompt_readFile(p)
        \/ createAgent_hset(p) \/ createAgent_sadd(p)
        \/ ensureSession_exists(p) \/ ensureSession_sadd(p)
        \/ ensureSession_hset(p) \/ ensureSession_agent(p)

SpecCreate == Init /\ [][NextCreate]_vars

(***************************************************************************)
(* The scoping function tried on ids and names of every shape.             *)
(***************************************************************************)
\* characters of the ids and names the function is tried on
NameChars == {"a", "_", "-"}
StringsOf(min, max) == UNION { [1..k -> NameChars] : k \in min..max }

InitNames ==
    /\ agentsIndex = {}
    /\ agentHash = [a \in AgentIds |-> EmptyAgentHash]
    /\ sessionsSet = [a \in AgentIds |-> {}]
    /\ sessionHash = [a \in AgentIds |-> [s \in SessionIds |-> EmptySessionHash]]
    /\ messages = [a \in AgentIds |-> [s \in SessionIds |-> <<>>]]
    /\ calls = 0
    /\ pc = [p \in Procs |-> "idle"]
    /\ l = [p \in Procs |-> IdleLocals]
    /\ turn = [p \in Procs |-> IdleTurn]
    /\ appended = [a \in AgentIds |-> [s \in SessionIds |-> <<>>]]
    /\ added = [a \in AgentIds |-> [s \in SessionIds |-> NothingAdded]]
    /\ \E a \in StringsOf(1, MaxIdLen), b \in StringsOf(1, MaxIdLen),
          t \in StringsOf(1, MaxToolLen) \cup LocalToolNames :
         scope = [servers |-> <<a, b>>, toolName |-> t,
                  tools |-> {[name |-> n, owner |-> <<>>] : n \in LocalToolNames},
                  next |-> 1]
    /\ memoryIndex = [a \in AgentIds |-> {}]
    /\ files = ShippedFiles
    /\ bootstrapPromptCache = NoStr
    /\ clock = 0
    /\ listing = IdleListing
    /\ stored = IdleStored
    /\ keyring = IdleKeyring

\* line 187 for the server the loop is at, which advertises toolName
registerTool ==
    /\ scope.next \in 1..Len(scope.servers)
    /\ scope' = [scope EXCEPT
            !.tools = SetTool(@, getScopedMcpToolName(scope.servers[scope.next],
                                                      scope.toolName),
                              scope.servers[scope.next]),
            !.next = @ + 1]
    /\ UNCHANGED <<store, calls, pc, l, turn, appended, added, memoryIndex, clock, listing,
                   files, bootstrapPromptCache,
                   stored, keyring>>

NextNames == registerTool
SpecNames == InitNames /\ [][NextNames]_vars

(***************************************************************************)
(* Properties.                                                             *)
(***************************************************************************)
IsPrefix(a, b) == Len(a) <= Len(b) /\ SubSeq(b, 1, Len(a)) = a

\* the session a turn talks to, as the store holds it
TurnLog(p) ==
    IF turn[p].agentId \in AgentIds
    THEN messages[turn[p].agentId][turn[p].sessionId] ELSE <<>>
TurnUsage(p) ==
    IF turn[p].agentId \in AgentIds
    THEN UsageOfHash(sessionHash[turn[p].agentId][turn[p].sessionId]) ELSE ZeroUsage
\* the log once the user message is in
WithUser(p) == turn[p].pre.messages \o <<UserMsg(turn[p].content)>>
\* the handler of a request has run to its end
TurnOver(p) == pc[p] = "idle" /\ turn[p].response # "none"
NoClientOpen(p) ==
    \A i \in 1..Len(turn[p].clients) : turn[p].clients[i].state # "open"

\* C1: when the appendMessage / appendMessages calls on a session are made one
\* at a time, the log of the session, and what getMessages returns, is the
\* concatenation in call order of the batches appended since the last clear
C1_Transcript ==
    AllIdle =>
        /\ \A a \in AgentIds, s \in SessionIds : messages[a][s] = appended[a][s]
        /\ \A p \in Procs :
             (l[p].op = "getSessionMessages" /\ l[p].outcome = "ok")
                => l[p].retMessages = appended[l[p].agentId][l[p].sessionId]

\* two calls have appended three messages to one session
C1_Witness ==
    /\ AllIdle /\ calls = 2
    /\ l[1].op = "appendSessionMessage" /\ l[1].outcome = "ok"
    /\ Len(messages["ops"]["s2"]) = 3

\* C2: a turn that ends with the stream closed has extended the log by the
\* user message followed by the response messages, and the usage counters by
\* the turn's usage; the messages are in the log before the usage is added
C2_TurnPersists ==
    \A p \in Procs :
        /\ (pc[p] = "idle" /\ turn[p].stream = "closed")
             => /\ turn[p].finalized
                /\ TurnLog(p) = WithUser(p) \o turn[p].respMessages
                /\ FullUsage(turn[p].usage)
                     => TurnUsage(p) = SumUsage(turn[p].pre.usage, DeltaOf(turn[p].usage))
        /\ (pc[p] \in {"assert", "gu_hgetall", "au_hset"}
                /\ l[p].op = "addSessionTokenUsage")
             => /\ TurnLog(p) = WithUser(p) \o turn[p].respMessages
                /\ TurnUsage(p) = turn[p].pre.usage

\* a turn with a tool server and a three-message response has ended well
C2_Witness ==
    /\ pc[1] = "idle" /\ turn[1].stream = "closed"
    /\ Len(turn[1].respMessages) = 3 /\ FullUsage(turn[1].usage)
    /\ Len(turn[1].clients) > 0
    /\ Len(TurnLog(1)) = 4

\* C3: once tool discovery has begun or the model has been invoked, also
\* after the handler has crashed, the log holds the user message of the turn
C3_UserMessageFirst ==
    \A p \in Procs :
        (turn[p].discovery \/ turn[p].modelCalled \/ Len(turn[p].clients) > 0)
            => IsPrefix(WithUser(p), TurnLog(p))

\* the model is streaming for a turn that opened a connection
C3_Witness ==
    /\ pc[1] = "t_pump" /\ turn[1].modelCalled /\ Len(turn[1].clients) = 1
    /\ TurnLog(1) = <<UserMsg("hello")>>

\* C4: a turn whose generation failed (agent.stream, textStream, or the
\* response of the stream result rejected) ends with the user message in
\* the log, no response message appended, the usage unchanged, and an error
\* for the caller (status 500 or an errored stream; a caller that cancelled
\* has no stream left to receive it on)
C4_FailedGeneration ==
    \A p \in Procs :
        (pc[p] = "idle" /\ turn[p].generationFailed)
            => /\ TurnLog(p) = WithUser(p)
               /\ TurnUsage(p) = turn[p].pre.usage
               /\ \/ turn[p].response = "500"
                  \/ turn[p].stream = "errored"
                  \/ turn[p].stream = "cancelled"

\* the generation failed while streaming, after a chunk was delivered, and
\* the caller was told
C4_Witness ==
    /\ pc[1] = "idle" /\ turn[1].generationFailed
    /\ turn[1].stream = "errored" /\ turn[1].chunks = 1
    /\ TurnLog(1) = <<UserMsg("hello")>>
    /\ TurnUsage(1) = turn[1].pre.usage

\* C5: a turn in which the delivery of a chunk failed, and nothing else did,
\* still ends with its response messages appended and its usage added
C5_PersistsDespiteDisconnect ==
    \A p \in Procs :
        (pc[p] = "idle" /\ turn[p].deliveryFailed
            /\ ~turn[p].generationFailed /\ ~turn[p].persistFailed
            /\ ~turn[p].usageFailed)
            => turn[p].finalized

\* C6: when the handler of a turn is over, none of the connections it
\* opened is still open
C6_AllConnectionsClosed == \A p \in Procs : TurnOver(p) => NoClientOpen(p)

\* C7: a turn whose tool discovery failed never invokes the model and hands
\* out no stream; it ends with status 500, every connection it opened closed,
\* and nothing but the user message persisted
C7_DiscoveryFailure ==
    \A p \in Procs :
        turn[p].initFailed
            => /\ ~turn[p].modelCalled
               /\ turn[p].stream = "none"
               /\ pc[p] \in {"t_initfail", "idle"}
               /\ pc[p] = "idle"
                    => /\ turn[p].response = "500"
                       /\ NoClientOpen(p)
                       /\ TurnLog(p) = WithUser(p)
                       /\ TurnUsage(p) = turn[p].pre.usage

\* the catalogue query of the second server failed after both were connected
C7_Witness ==
    /\ pc[1] = "idle" /\ turn[1].initFailed
    /\ Len(turn[1].clients) = 2 /\ Len(turn[1].servers) = 2

\* C8: after two servers with distinct ids have registered the same tool
\* name, the tool mapping holds the tool of each
C8_ScopedNamesDistinct ==
    (scope.next = 3 /\ scope.servers[1] # scope.servers[2])
        => \A i \in 1..2 : \E e \in scope.tools : e.owner = scope.servers[i]

\* C9: when the addUsage calls on a session are made one at a time, the
\* stored counters, and what getUsage returns, are the field-wise sum of the
\* deltas added since the session was created or cleared
C9_UsageIsSum ==
    AllIdle =>
        /\ \A a \in AgentIds, s \in SessionIds :
             added[a][s].exact => UsageOfHash(sessionHash[a][s]) = added[a][s].sum
        /\ \A p \in Procs :
             (l[p].op = "getSessionTokenUsage" /\ l[p].outcome = "ok"
                /\ added[l[p].agentId][l[p].sessionId].exact)
                => l[p].retUsage = added[l[p].agentId][l[p].sessionId].sum

\* two deltas have been added to the default session
C9_Witness ==
    /\ AllIdle /\ calls = 2
    /\ l[1].op = "addSessionTokenUsage" /\ l[1].outcome = "ok"
    /\ added["ops"][DEFAULT_SESSION_ID].exact
    /\ added["ops"][DEFAULT_SESSION_ID].sum = 
         [inputTokens |-> 12, reasoningTokens |-> 1, outputTokens |-> 6, totalTokens |-> 19]

\* C10: whatever the interleaving of the addUsage calls on a session, once
\* they are over the stored counters are the sum of all their deltas
C10_NoLostUpdate ==
    AllIdle =>
        \A a \in AgentIds, s \in SessionIds :
            added[a][s].exact => UsageOfHash(sessionHash[a][s]) = added[a][s].sum

\* a start-fresh of caller p has just returned
FreshDone(p) ==
    /\ pc[p] = "idle" /\ l[p].op = "clearSessionMessages"
    /\ l[p].sessionId = DEFAULT_SESSION_ID /\ l[p].outcome = "ok"

\* C11: once a start-fresh of an existing agent has returned, the log of its
\* default session is empty, its four usage counters are zero, and the
\* default session is in the list of the agent's sessions
C11_StartFresh ==
    \A p \in Procs :
        FreshDone(p) =>
            /\ messages[l[p].agentId][DEFAULT_SESSION_ID] = <<>>
            /\ UsageOfHash(sessionHash[l[p].agentId][DEFAULT_SESSION_ID]) = ZeroUsage
            /\ \E i \in 1..Cardinality(sessionsSet[l[p].agentId]) :
                 SortSessions(sessionsSet[l[p].agentId])[i] = DEFAULT_SESSION_ID

\* the default session is started fresh after a message was appended to it
C11_Witness ==
    /\ FreshDone(1) /\ l[1].agentId = "ops" /\ calls = 2
    /\ sessionHash["ops"][DEFAULT_SESSION_ID].lastMessageAt = 1

\* C12: no step of a start-fresh changes the log or the usage counters of a
\* session other than the default session of the agent it names, and no step
\* of it removes a session from a session list
C12_FreshFrame ==
    [][\A p \in Procs :
         (pc[p] # "idle" /\ l[p].op = "clearSessionMessages"
             /\ l[p].sessionId = DEFAULT_SESSION_ID)
            => /\ \A a \in AgentIds, s \in SessionIds :
                    (a # l[p].agentId \/ s # DEFAULT_SESSION_ID)
                       => /\ messages'[a][s] = messages[a][s]
                          /\ UsageOfHash(sessionHash'[a][s]) = UsageOfHash(sessionHash[a][s])
               /\ \A a \in AgentIds : sessionsSet[a] \subseteq sessionsSet'[a]]_vars

\* a start-fresh of one agent has returned while another session of that
\* agent, or a session of the other agent, holds messages
C12_Witness ==
    /\ FreshDone(1) /\ calls = 2
    /\ \E a \in AgentIds, s \in SessionIds :
         /\ a # l[1].agentId \/ s # DEFAULT_SESSION_ID
         /\ messages[a][s] # <<>>

\* the steps of ensureSession
EnsureLocs == {"es_exists", "es_sadd", "es_hset", "es_agent"}

\* C13: a step of the lazy creation leaves the session list as it is when the
\* session is already in it, and leaves the usage counters and the creation
\* data of a session record that already exists; after the lazy creation the
\* session is in the list, where a set holds it once
C13_LazyCreateOnce ==
    [][\A p \in Procs :
         (pc[p] \in EnsureLocs /\ l[p].agentId \in AgentIds)
            => LET a == l[p].agentId
                   s == l[p].sessionId
               IN  /\ s \in sessionsSet[a] => sessionsSet' = sessionsSet
                   /\ KeyExistsSession(a, s)
                        => /\ UsageOfHash(sessionHash'[a][s]) = UsageOfHash(sessionHash[a][s])
                           /\ sessionHash'[a][s].createdAt = sessionHash[a][s].createdAt
                           /\ sessionHash'[a][s].id = sessionHash[a][s].id
                           /\ sessionHash'[a][s].agentId = sessionHash[a][s].agentId
                   /\ pc[p] = "es_agent"
                        => /\ s \in sessionsSet'[a]
                           /\ Cardinality({i \in 1..Cardinality(sessionsSet'[a]) :
                                   SortSessions(sessionsSet'[a])[i] = s}) = 1]_vars

\* a second appendMessage has gone through the session the first one created
C13_Witness ==
    /\ pc[1] = "idle" /\ l[1].op = "appendSessionMessage" /\ l[1].outcome = "ok"
    /\ sessionHash["ops"]["s2"].createdAt = 1
    /\ sessionHash["ops"]["s2"].lastMessageAt = 2

\* the operations that take a session id
SessionOps ==
    {"appendSessionMessage", "appendSessionMessages", "getSessionMessages",
     "getSessionTokenUsage", "addSessionTokenUsage", "clearSessionMessages"}

\* C14: once an operation that takes a session id has returned for an
\* existing agent (appendMessages with a non-empty batch), the session id is
\* in the list of the agent's sessions
C14_ReferenceCreates ==
    \A p \in Procs :
        (pc[p] = "idle" /\ l[p].op \in SessionOps /\ l[p].outcome = "ok"
            /\ (l[p].op = "appendSessionMessages" => l[p].messages # <<>>))
            => \E i \in 1..Cardinality(sessionsSet[l[p].agentId]) :
                 SortSessions(sessionsSet[l[p].agentId])[i] = l[p].sessionId

\* C15: between calls, what listSessions returns for an existing agent is a
\* list without duplicates that starts with the default session and goes on
\* in ascending order of the other ids; a listSessions call that has
\* returned has returned that list
C15_DefaultFirstSorted ==
    AllIdle =>
        /\ \A a \in AgentIds :
             ~AgentMissing(agentHash[a])
                => LET r == SortSessions(sessionsSet[a])
                   IN  /\ Len(r) >= 1
                       /\ r[1] = DEFAULT_SESSION_ID
                       /\ \A i, j \in 1..Len(r) : i # j => r[i] # r[j]
                       /\ \A i, j \in 2..Len(r) :
                            i < j => SessionRank(r[i]) < SessionRank(r[j])
        /\ \A p \in Procs :
             (l[p].op = "listAgentSessions" /\ l[p].outcome = "ok")
                => l[p].retSessions = SortSessions(sessionsSet[l[p].agentId])

\* listSessions has returned the default session ahead of a session whose id
\* sorts before "default"
C15_Witness ==
    /\ AllIdle /\ l[1].op = "listAgentSessions" /\ l[1].outcome = "ok"
    /\ l[1].retSessions = <<DEFAULT_SESSION_ID, "a1">>

\* C16: a createAgent whose name or id is blank after trimming ends at once
\* with InvalidInput, one whose id is taken ends with Conflict at its lookup,
\* and neither step changes anything in the store
C16_CreateAgentRejects ==
    [][\A p \in Procs :
         /\ (pc[p] = "idle" /\ l'[p].op = "createAgent" /\ l'[p] # l[p])
              => /\ store' = store
                 /\ (l'[p].name = "" \/ l'[p].agentId = "")
                      => (pc'[p] = "idle" /\ l'[p].outcome = "InvalidInput")
         /\ (pc[p] = "ca_exists" /\ pc'[p] # "ca_exists"
                /\ KeyExistsAgent(l[p].agentId))
              => /\ store' = store
                 /\ pc'[p] = "idle" /\ l'[p].outcome = "Conflict"]_vars

\* createAgent was turned down for an id whose agent has a message in a
\* session of its own
C16_Witness ==
    /\ pc[1] = "idle" /\ l[1].op = "createAgent" /\ l[1].outcome = "Conflict"
    /\ l[1].agentId = "ops" /\ messages["ops"]["s2"] # <<>>

\* C17: once createAgent has returned an agent, the agent is among those
\* listAgents reads, its prompt is the bootstrap prompt, its server list is
\* empty, its sessions are the default session alone, and that session has
\* an empty log and zero usage; a listAgents call that has returned has
\* returned the agents of the index that have an id and a name
C17_FreshAgent ==
    \A p \in Procs :
        /\ (pc[p] = "idle" /\ l[p].op = "createAgent" /\ l[p].outcome = "ok")
             => LET a == l[p].agentId
                IN  /\ a \in agentsIndex
                    /\ ~AgentMissing(agentHash[a])
                    /\ agentHash[a].id = a /\ agentHash[a].name = l[p].name
                    /\ agentHash[a].systemPrompt = BootstrapPrompt
                    /\ parseStoredMcpServers(agentHash[a].mcpServers) = <<>>
                    /\ SortSessions(sessionsSet[a]) = <<DEFAULT_SESSION_ID>>
                    /\ messages[a][DEFAULT_SESSION_ID] = <<>>
                    /\ UsageOfHash(sessionHash[a][DEFAULT_SESSION_ID]) = ZeroUsage
        /\ (pc[p] = "idle" /\ l[p].op = "listAgents" /\ l[p].outcome = "ok")
             => {l[p].retAgents[i].id : i \in 1..Len(l[p].retAgents)}
                  = {a \in agentsIndex : ~AgentMissing(agentHash[a])}

\* a second agent was created after the first one got a message
C17_Witness ==
    /\ pc[1] = "idle" /\ l[1].op = "createAgent" /\ l[1].outcome = "ok"
    /\ l[1].agentId = "dev" /\ calls = 1
    /\ messages["ops"][DEFAULT_SESSION_ID] # <<>>

\* the store operations that take an agent id, createAgent aside
AgentOps == SessionOps \cup {"listAgentSessions"}

C19_EmptyBatchNoEffect ==
    [][\A p \in Procs :
         (l'[p].op = "appendSessionMessages" /\ l'[p].messages = <<>>
             /\ (pc'[p] # pc[p] \/ l'[p] # l[p]))
            => /\ store' = store
               /\ pc'[p] \in {"asm_entry", "idle"}
               /\ pc'[p] = "idle" => l'[p].outcome = "ok"]_vars

\* an empty batch was handed in for a session of an existing agent that no
\* list reports, and the call has returned
C19_Witness ==
    /\ pc[1] = "idle" /\ l[1].op = "appendSessionMessages" /\ l[1].messages = <<>>
    /\ l[1].outcome = "ok" /\ KeyExistsAgent(l[1].agentId)
    /\ l[1].sessionId \notin sessionsSet[l[1].agentId]
    /\ ~KeyExistsSession(l[1].agentId, l[1].sessionId)

\* C20: a request whose agent id or content is blank after trimming is
\* answered 400 in the step that receives it, with the store unchanged; a
\* request answered 400 has opened no connection, begun no discovery and
\* invoked no model
C20_BadInputRejected ==
    [][\A p \in Procs :
         /\ (pc[p] = "idle" /\ calls' = calls + 1 /\ turn'[p] # turn[p]
                /\ (turn'[p].agentId = "" \/ turn'[p].content = ""))
              => /\ turn'[p].response = "400"
                 /\ pc'[p] = "idle"
                 /\ store' = store
         /\ turn'[p].response = "400"
              => /\ turn'[p].clients = <<>>
                 /\ ~turn'[p].discovery /\ ~turn'[p].modelCalled
                 /\ turn'[p].stream = "none"
                 /\ TurnLog(p)' = turn'[p].pre.messages]_vars

\* a request with blank content for an existing agent was answered 400
C20_Witness ==
    /\ pc[1] = "idle" /\ turn[1].response = "400"
    /\ turn[1].agentId = "ops" /\ turn[1].content = ""
    /\ KeyExistsAgent("ops")

(***************************************************************************)
(* C21. A turn request that names an agent that does not exist ends with a *)
(* response classified as not-found, which is neither the bad-input (400)  *)
(* nor the upstream-failure (500) classification, with no stream, no       *)
(* client, no model call and no change to the store.                       *)
(***************************************************************************)
C21_UnknownAgentTurn ==
    \A p \in Procs :
        (/\ turn[p].response # "none"
         /\ turn[p].agentId # "" /\ turn[p].content # ""
         /\ AgentMissing(AgentRecord(turn[p].agentId)))
          => /\ turn[p].response \notin {"400", "500", "200"}
             /\ turn[p].stream = "none"
             /\ turn[p].clients = <<>> /\ ~turn[p].modelCalled
             /\ TurnLog(p) = turn[p].pre.messages

(***************************************************************************)
(* Remote tool server configuration (SpecMcp).                             *)
(***************************************************************************)
\* the servers configured on agent a
StoredServers(a) == parseStoredMcpServers(agentHash[a].mcpServers)
HasServer(servers, id) == \E i \in 1..Len(servers) : servers[i].id = id
\* caller p runs `op` on an agent that exists and is about to read its servers
McpAt(p, op) ==
    /\ pc[p] = "assert" /\ l[p].op = op
    /\ ~AgentMissing(AgentRecord(l[p].agentId))
\* caller p is about to save the list that `op` built
McpSaving(p, op) == pc[p] = "ms_save" /\ l[p].op = op
\* caller p's call ended in `err` and wrote nothing
McpFails(p, err) == l'[p].outcome = err /\ pc'[p] = "idle" /\ store' = store
\* nothing but the server list (and updatedAt) of agent a changes
OnlyServersChange(a) ==
    /\ UNCHANGED <<agentsIndex, sessionsSet, sessionHash, messages>>
    /\ \A b \in AgentIds \ {a} : agentHash'[b] = agentHash[b]
    /\ agentHash'[a] = [agentHash[a] EXCEPT !.mcpServers = agentHash'[a].mcpServers,
                                            !.updatedAt = agentHash'[a].updatedAt]
SortedByName(servers) ==
    \A i, j \in 1..Len(servers) : i < j => ~NameBefore(servers[j], servers[i])
McpOps == {"addAgentMcpServer", "updateAgentMcpServer", "deleteAgentMcpServer"}

(***************************************************************************)
(* C22. Adding a (well-formed) server whose identifier, once trimmed,      *)
(* equals that of a server already configured on the agent fails with      *)
(* Conflict and leaves the store, hence the agent's stored server list     *)
(* with its entries and their order, unchanged.                            *)
(***************************************************************************)
C22_AddConflict ==
    [][\A p \in Procs :
         (/\ McpAt(p, "addAgentMcpServer")
          /\ ValidMcpServer(l[p].server)
          /\ HasServer(StoredServers(l[p].agentId), Trim(l[p].server.id)))
           => McpFails(p, "Conflict")]_vars

\* the second add of an identifier failed and the list still has one entry
C22_Witness ==
    \E p \in Procs :
        /\ pc[p] = "idle" /\ l[p].op = "addAgentMcpServer"
        /\ l[p].outcome = "Conflict"
        /\ Len(StoredServers(l[p].agentId)) = 1
        /\ StoredServers(l[p].agentId)[1].id = Trim(l[p].server.id)

(***************************************************************************)
(* C23. Deleting a (non-blank) identifier that is not configured on the    *)
(* agent fails with NotFound and leaves the store unchanged; deleting a    *)
(* configured identifier saves the list without exactly that entry, the    *)
(* others kept in their order, and changes nothing else.                   *)
(***************************************************************************)
C23_Delete ==
    [][\A p \in Procs :
         /\ (/\ McpAt(p, "deleteAgentMcpServer")
             /\ Trim(l[p].serverId) # ""
             /\ ~HasServer(StoredServers(l[p].agentId), Trim(l[p].serverId)))
              => McpFails(p, "NotFound")
         /\ (/\ McpAt(p, "deleteAgentMcpServer")
             /\ HasServer(StoredServers(l[p].agentId), Trim(l[p].serverId)))
              => (pc'[p] = "ms_save" /\ store' = store)
         /\ McpSaving(p, "deleteAgentMcpServer")
              => LET before == StoredServers(l[p].agentId)
                     after == parseStoredMcpServers(agentHash'[l[p].agentId].mcpServers)
                 IN  /\ \E k \in 1..Len(before) :
                           /\ before[k].id = Trim(l[p].serverId)
                           /\ after = SubSeq(before, 1, k - 1)
                                        \o SubSeq(before, k + 1, Len(before))
                     /\ OnlyServersChange(l[p].agentId)
                     /\ l'[p].outcome = "ok" /\ pc'[p] = "idle"]_vars

\* a delete removed one of three servers
C23_Witness ==
    \E p \in Procs :
        /\ pc[p] = "idle" /\ l[p].op = "deleteAgentMcpServer"
        /\ l[p].outcome = "ok"
        /\ Len(StoredServers(l[p].agentId)) = 2

(***************************************************************************)
(* C24. Updating a server (non-blank target, well-formed payload) fails    *)
(* with NotFound when the target is not configured, fails with Conflict    *)
(* when the new identifier is that of a different configured server, and   *)
(* otherwise succeeds; a failure leaves the store unchanged, a success     *)
(* replaces exactly the target entry.                                      *)
(***************************************************************************)
C24_Update ==
    [][\A p \in Procs :
         /\ McpAt(p, "updateAgentMcpServer") /\ Trim(l[p].serverId) # ""
              => LET servers == StoredServers(l[p].agentId)
                     targetId == Trim(l[p].serverId)
                     newId == Trim(l[p].server.id)
                 IN  /\ store' = store
                     /\ ~HasServer(servers, targetId) => McpFails(p, "NotFound")
                     /\ (/\ HasServer(servers, targetId) /\ ValidMcpServer(l[p].server)
                         /\ newId # targetId /\ HasServer(servers, newId))
                          => McpFails(p, "Conflict")
                     /\ (/\ HasServer(servers, targetId) /\ ValidMcpServer(l[p].server)
                         /\ (newId = targetId \/ ~HasServer(servers, newId)))
                          => pc'[p] = "ms_save"
         /\ McpSaving(p, "updateAgentMcpServer")
              => LET before == StoredServers(l[p].agentId)
                     after == parseStoredMcpServers(agentHash'[l[p].agentId].mcpServers)
                     Entries(s) == {s[i] : i \in 1..Len(s)}
                 IN  /\ Len(after) = Len(before)
                     /\ \E k \in 1..Len(before) :
                           /\ before[k].id = Trim(l[p].serverId)
                           /\ Entries(after) =
                                (Entries(before) \ {before[k]})
                                   \cup {normalizeMcpServer(l[p].server)}
                     /\ OnlyServersChange(l[p].agentId)
                     /\ l'[p].outcome = "ok" /\ pc'[p] = "idle"]_vars

\* an update that kept the identifier and changed the name went through
C24_Witness ==
    \E p \in Procs :
        /\ pc[p] = "idle" /\ l[p].op = "updateAgentMcpServer"
        /\ l[p].outcome = "ok"
        /\ Trim(l[p].server.id) = Trim(l[p].serverId)
        /\ Len(StoredServers(l[p].agentId)) >= 2
        /\ \E i \in 1..Len(StoredServers(l[p].agentId)) :
              StoredServers(l[p].agentId)[i] = normalizeMcpServer(l[p].server)

(***************************************************************************)
(* C25. Whatever add / update / delete operations one caller runs, the     *)
(* stored server identifiers of an agent are pairwise distinct and every   *)
(* stored server has a non-empty identifier and a non-empty URL.           *)
(***************************************************************************)
C25_ServersWellFormed ==
    \A a \in AgentIds :
        LET servers == agentHash[a].mcpServers
        IN  /\ \A i, j \in 1..Len(servers) : i # j => servers[i].id # servers[j].id
            /\ \A i \in 1..Len(servers) :
                  /\ Trim(servers[i].id) # "" /\ servers[i].id = Trim(servers[i].id)
                  /\ Trim(servers[i].url) # ""

\* three servers are configured, one of them after an update changed its id
C25_Witness ==
    \E p \in Procs :
        /\ pc[p] = "idle" /\ l[p].op = "updateAgentMcpServer" /\ l[p].outcome = "ok"
        /\ Trim(l[p].server.id) # Trim(l[p].serverId)
        /\ Len(agentHash[l[p].agentId].mcpServers) >= 2

(***************************************************************************)
(* C26. The list a successful add / update / delete returns is the list    *)
(* stored for the agent and is sorted by display name.                     *)
(***************************************************************************)
C26_ReturnsStoredSorted ==
    \A p \in Procs :
        (pc[p] = "idle" /\ l[p].op \in McpOps /\ l[p].outcome = "ok")
          => /\ l[p].retServers = StoredServers(l[p].agentId)
             /\ l[p].retServers = agentHash[l[p].agentId].mcpServers
             /\ SortedByName(l[p].retServers)

\* a delete returned two servers with different names
C26_Witness ==
    \E p \in Procs :
        /\ pc[p] = "idle" /\ l[p].op = "deleteAgentMcpServer" /\ l[p].outcome = "ok"
        /\ Len(l[p].retServers) = 2
        /\ l[p].retServers[1].name # l[p].retServers[2].name

(***************************************************************************)
(* C27. Memory appends are bucketed by calendar day. The upsert of an      *)
(* append leaves exactly one document for its day: a new one with one      *)
(* entry, created at the time of the append, when the day had none, and    *)
(* otherwise the day's document with one more entry, the new line after    *)
(* the old ones and the creation time of the first append. Documents of    *)
(* other days and other agents stay as they are. An append of blank        *)
(* content is rejected and leaves the index alone.                         *)
(***************************************************************************)
C27_MemoryByDay ==
    [][\A p \in Procs :
         /\ (pc[p] = "idle" /\ clock' # clock /\ l'[p] # l[p] /\ l'[p].content = "")
              => /\ l'[p].outcome = "InvalidInput" /\ pc'[p] = "idle"
                 /\ memoryIndex' = memoryIndex
         /\ pc[p] = "am_upsert"
              => LET a == l[p].agentId
                     now == l[p].timestamp
                     line == [at |-> now, content |-> l[p].content]
                     before == {doc \in memoryIndex[a] : doc.id = DayOf(now)}
                     after == {doc \in memoryIndex'[a] : doc.id = DayOf(now)}
                 IN  /\ Cardinality(after) = 1
                     /\ \A doc \in after :
                           /\ doc.day = DayOf(now) /\ doc.updatedAt = now
                           /\ doc.entries = Len(doc.text)
                           /\ l'[p].retEntries = doc.entries
                           /\ IF before = {}
                              THEN /\ doc.entries = 1 /\ doc.text = <<line>>
                                   /\ doc.createdAt = now
                              ELSE \A old \in before :
                                     /\ doc.entries = old.entries + 1
                                     /\ doc.text = Append(old.text, line)
                                     /\ doc.createdAt = old.createdAt
                                     /\ doc.createdAt = doc.text[1].at
                     /\ memoryIndex'[a] \ after = memoryIndex[a] \ before
                     /\ \A b \in AgentIds \ {a} : memoryIndex'[b] = memoryIndex[b]]_vars

\* an agent has a document with two entries from one day, in append order,
\* and a document with one entry from another day
C27_Witness ==
    \E a \in AgentIds : \E two, one \in memoryIndex[a] :
        /\ two.id # one.id
        /\ two.entries = 2 /\ Len(two.text) = 2
        /\ two.text[1].at < two.text[2].at /\ two.createdAt = two.text[1].at
        /\ one.entries = 1

(***************************************************************************)
(* C28. The tool set handed to the model consists of the four local tools  *)
(* plus, for every enabled server configured on the agent, every tool the  *)
(* server advertises, under its scoped name and bound to that server; a    *)
(* server whose enabled flag is false is never connected to and            *)
(* contributes no tool.                                                    *)
(***************************************************************************)
C28_ToolSet ==
    \A p \in Procs :
        turn[p].discovery =>
          LET config == StoredServers(turn[p].agentId)
              enabled == {i \in 1..Len(config) : config[i].enabled}
              remote == UNION { { [name |-> getScopedMcpToolName(
                                                ServerIdChars(config[i].id), t),
                                     owner |-> ServerIdChars(config[i].id)] :
                                      t \in AdvertisedTools(config[i].id) } :
                                  i \in enabled }
          IN  /\ \A k \in 1..Len(turn[p].clients) :
                    \E i \in enabled : config[i].id = turn[p].clients[k].server
              /\ \A e \in turn[p].tools :
                    e.owner = <<>> \/ \E i \in enabled : e.owner = ServerIdChars(config[i].id)
              /\ turn[p].modelCalled
                   => /\ turn[p].tools =
                           {[name |-> n, owner |-> <<>>] : n \in LocalToolNames} \cup remote
                      /\ Cardinality(LocalToolNames) = 4
                      /\ Cardinality({e.name : e \in turn[p].tools}) =
                           4 + Cardinality(remote)

\* the model was called for an agent with an enabled and a disabled server
C28_Witness ==
    \E p \in Procs :
        /\ turn[p].modelCalled
        /\ \E i, j \in 1..Len(StoredServers(turn[p].agentId)) :
              /\ StoredServers(turn[p].agentId)[i].enabled
              /\ ~StoredServers(turn[p].agentId)[j].enabled
        /\ Cardinality(turn[p].tools) > 4

(***************************************************************************)
(* C29. A remote tool server that never answers the connection attempt or  *)
(* the catalogue request does not block the turn forever: with the         *)
(* handler, the store and the model making progress, a turn that is at     *)
(* discovery eventually reaches generation or ends with a failure response *)
(* and no connection left open.                                            *)
(***************************************************************************)
C29_SlowServerDoesNotBlock ==
    \A p \in SeqProcs :
        (pc[p] \in {"t_connect", "t_tools"})
          ~> \/ turn[p].modelCalled
             \/ (turn[p].response = "500" /\ pc[p] = "idle" /\ NoClientOpen(p))

(***************************************************************************)
(* C30. The cleanup of a turn attempts close on every connection the turn  *)
(* opened, whether or not other closes fail; a close failure is not        *)
(* propagated: the cleanup step ends the handler normally and changes      *)
(* nothing of the turn but the state of its connections (after a failed    *)
(* discovery the response is the 500 of the catch, whatever the closes     *)
(* did), and nothing of the store.                                         *)
(***************************************************************************)
C30_BestEffortClose ==
    [][\A p \in Procs :
         (pc[p] \in {"t_finally", "t_initfail"} /\ pc'[p] # pc[p])
           => /\ Len(turn'[p].clients) = Len(turn[p].clients)
              /\ \A i \in 1..Len(turn[p].clients) :
                    /\ turn'[p].clients[i].server = turn[p].clients[i].server
                    /\ turn[p].clients[i].state = "open"
                    /\ turn'[p].clients[i].state \in {"closed", "close_failed"}
              /\ pc'[p] = "idle"
              /\ store' = store
              /\ IF pc[p] = "t_finally"
                 THEN [turn'[p] EXCEPT !.clients = turn[p].clients] = turn[p]
                 ELSE /\ turn'[p].response = "500"
                      /\ [turn'[p] EXCEPT !.clients = turn[p].clients,
                                          !.response = turn[p].response] = turn[p]]_vars

\* the close of the first connection failed and the second was closed
C30_Witness ==
    \E p \in Procs :
        /\ pc[p] = "idle" /\ Len(turn[p].clients) = 2
        /\ turn[p].clients[1].state = "close_failed"
        /\ turn[p].clients[2].state = "closed"
        /\ turn[p].modelCalled

(***************************************************************************)
(* C35. The caller sees the normal end of the stream only after the turn   *)
(* is finalized: whenever the stream is closed, the response messages are  *)
(* in the session log after the user message and the usage of the turn is  *)
(* in the counters; a turn one of whose finalize steps failed never has    *)
(* its stream closed, and ends with the stream errored (or cancelled by    *)
(* the caller before).                                                     *)
(***************************************************************************)
C35_CloseAfterFinalize ==
    \A p \in Procs :
        /\ turn[p].stream = "closed"
             => /\ pc[p] \in {"t_finally", "idle"}
                /\ ~turn[p].persistFailed /\ ~turn[p].generationFailed
                /\ ~turn[p].usageFailed
                /\ TurnLog(p) = WithUser(p) \o turn[p].respMessages
                /\ TurnUsage(p).inputTokens =
                      turn[p].pre.usage.inputTokens + Coalesce(turn[p].usage.inputTokens, 0)
                /\ TurnUsage(p).outputTokens =
                      turn[p].pre.usage.outputTokens + Coalesce(turn[p].usage.outputTokens, 0)
        /\ (turn[p].persistFailed \/ turn[p].usageFailed)
             => /\ turn[p].stream # "closed"
                /\ pc[p] = "idle" => turn[p].stream \in {"errored", "cancelled"}

\* the stream of a turn with response messages and usage is closed while
\* the handler is still about to clean up
C35_Witness ==
    \E p \in Procs :
        /\ pc[p] = "t_finally" /\ turn[p].stream = "closed"
        /\ Len(turn[p].respMessages) > 0
        /\ turn[p].usage.inputTokens > 0

(***************************************************************************)
(* C39. A remote tool never replaces a local tool: whatever the server ids *)
(* and the advertised tool name (also the name of a local tool), the       *)
(* scoped name differs from the four local tool names, and the tool        *)
(* mapping keeps the four built-in tools.                                  *)
(***************************************************************************)
C39_LocalToolsKept ==
    scope.next >= 1
      => /\ Cardinality(LocalToolNames) = 4
         /\ \A n \in LocalToolNames :
               /\ [name |-> n, owner |-> <<>>] \in scope.tools
               /\ \A e \in scope.tools : e.name = n => e.owner = <<>>
               /\ \A i \in 1..Len(scope.servers) :
                     getScopedMcpToolName(scope.servers[i], scope.toolName) # n

\* two servers have registered a tool that is named like a local tool
C39_Witness ==
    /\ scope.next = 3
    /\ scope.toolName \in LocalToolNames
    /\ Cardinality(scope.tools) > 4

(***************************************************************************)
(* C31. With append calls of several callers interleaved on one session,   *)
(* each call appends atomically: the log changes only in the one RPUSH of  *)
(* a call, which puts the whole batch of the call, in batch order, at the  *)
(* tail of the log as it is at that moment; a call that returns has pushed *)
(* exactly once; when all calls are over the log holds as many messages    *)
(* as were handed in. Which batch comes first is not constrained.          *)
(***************************************************************************)
C31_AppendAtomic ==
    [][/\ \A a \in AgentIds, s \in SessionIds :
            messages'[a][s] # messages[a][s]
              => \E p \in Procs :
                    /\ pc[p] = "ap_rpush" /\ pc'[p] = "ap_hset"
                    /\ l[p].agentId = a /\ l[p].sessionId = s
                    /\ l[p].messages # <<>>
                    /\ messages'[a][s] = messages[a][s] \o l[p].messages
       /\ \A p \in Procs :
            /\ (pc[p] = "ap_rpush" /\ pc'[p] # pc[p])
                 => messages'[l[p].agentId][l[p].sessionId] =
                       messages[l[p].agentId][l[p].sessionId] \o l[p].messages
            /\ (pc'[p] = "ap_hset" /\ pc[p] # "ap_hset") => pc[p] = "ap_rpush"
            /\ (/\ l[p].op \in {"appendSessionMessage", "appendSessionMessages"}
                /\ l[p].messages # <<>>
                /\ l'[p].outcome = "ok" /\ l[p].outcome # "ok")
                 => pc[p] = "ap_hset"
       /\ AllIdle' => \A a \in TurnAgents, s \in SessionIds :
                         KeyExistsAgent(a)' =>
                            Len(messages'[a][s]) = Len(appended'[a][s])]_vars

\* two callers were inside an append of the same session at the same time;
\* the two-message batch of one is in the log behind the message of the other
C31_Witness ==
    /\ AllIdle
    /\ l[1].op = "appendSessionMessages" /\ l[1].outcome = "ok" /\ Len(l[1].messages) = 2
    /\ l[2].op = "appendSessionMessage" /\ l[2].outcome = "ok"
    /\ l[1].timestamp = l[2].timestamp
    /\ messages["ops"]["s2"] = l[2].messages \o l[1].messages

(***************************************************************************)
(* C36. Once a session record exists, its usage counters are reset to zero *)
(* only by clearSessionMessages: no step of an append or of an addUsage    *)
(* call, whatever the interleaving, takes counters that are not all zero   *)
(* back to zero.                                                           *)
(***************************************************************************)
C36_OnlyClearResets ==
    [][\A a \in AgentIds, s \in SessionIds :
         (/\ KeyExistsSession(a, s)
          /\ UsageOfHash(sessionHash[a][s]) # ZeroUsage
          /\ UsageOfHash(sessionHash'[a][s]) = ZeroUsage)
           => \E p \in Procs : pc[p] = "cl_hset" /\ l[p].agentId = a /\ l[p].sessionId = s]_vars

(***************************************************************************)
(* C38. Whatever the interleaving of two createAgent calls with the same   *)
(* id, at most one of them succeeds: two callers never both hold a         *)
(* successful createAgent of one id (the record of the one that succeeded  *)
(* is then the only one written).                                          *)
(***************************************************************************)
C38_OneCreateWins ==
    \A p, q \in Procs :
        (/\ p # q
         /\ l[p].op = "createAgent" /\ l[q].op = "createAgent"
         /\ l[p].agentId = l[q].agentId
         /\ l[p].outcome = "ok")
          => l[q].outcome # "ok"

(***************************************************************************)
(* C40. Whatever the interleaving of the memory appends of an agent on one *)
(* calendar day, none is lost: the write of an append leaves in the day's  *)
(* document every line the document had, adds the line of the append, and  *)
(* leaves the entry counter at the number of lines.                        *)
(***************************************************************************)
C40_NoLostMemory ==
    [][\A p \in Procs :
         (pc[p] = "am_upsert" /\ pc'[p] # "am_upsert")
           => \E doc \in memoryIndex'[l[p].agentId] :
                 /\ doc.id = DayOf(l[p].timestamp)
                 /\ doc.entries = Len(doc.text)
                 /\ \E i \in 1..Len(doc.text) :
                       doc.text[i] = [at |-> l[p].timestamp, content |-> l[p].content]
                 /\ \A old \in memoryIndex[l[p].agentId] :
                       old.id = doc.id
                         => \A j \in 1..Len(old.text) :
                               \E i \in 1..Len(doc.text) : doc.text[i] = old.text[j]]_vars

\* C32: listAgentMemories ends against every backend, also one that always
\* gives a next cursor: it issues at most 20 range requests, never asks for a
\* cursor it has asked for before, and as long as it has not returned it can
\* take its next step.
C32_BoundedListing ==
    /\ Len(listing.asked) <= MaxPages
    /\ \A j, k \in 1..Len(listing.asked) :
          listing.asked[j] = listing.asked[k] => j = k
    /\ listing.at \in {"loop", "sort"} => ENABLED NextList

\* against the backend that never stops giving cursors the call returns after
\* 20 requests, against the one that gives cursor 0 again after 2
C32_Witness ==
    /\ listing.at = "done"
    /\ listing.backend = "endless"
    /\ Len(listing.asked) = MaxPages

\* C33: against a backend that pages to the end, listAgentMemories returns
\* every document of the index exactly once, the largest day id first, for
\* every size of the index.
C33_ListsEverything ==
    (listing.at = "done" /\ listing.backend = "paged")
      => listing.result = [k \in 1..listing.size |-> listing.size - k + 1]

\* C34: reading a stored mcpServers value never fails on a malformed entry.
\* For a stored list (the JSON array that createAgent and saveAgentMcpServers
\* write, as text or already deserialised) the entries without id, name or
\* URL, with a transport that is not supported, or that are no objects are
\* skipped and every well-formed entry is returned (normalised) in stored
\* order. A payload that cannot be parsed or holds no list (broken JSON, a
\* scalar, an empty value) gives the empty list. A stored map is no list of
\* entries: it is read either as the list of its values or as no list.
C34_SkipsMalformed ==
    stored.at = "parsed" =>
        LET WellFormed(input) ==
                /\ IsObject(input)
                /\ Trim(input.id) # "" /\ Trim(input.name) # "" /\ Trim(input.url) # ""
                /\ input.transport \in {"http", "sse", "streamable-http"}
            kept == SelectSeq(stored.value.items, WellFormed)
            returned == [i \in 1..Len(kept) |-> normalizeMcpServer(kept[i])]
        IN  CASE stored.value.kind = "array" -> stored.servers = returned
              [] stored.value.kind = "object" -> stored.servers \in {returned, <<>>}
              [] OTHER -> stored.servers = <<>>

\* a stored JSON array of an entry without id and a well-formed entry was
\* read: the first is skipped, the second is returned trimmed and with the
\* transport normalised
C34_Witness ==
    /\ stored.at = "parsed"
    /\ stored.value.text /\ stored.value.kind = "array"
    /\ stored.value.items =
          << [id |-> "", name |-> "Alpha", transport |-> "http",
              url |-> "https://mcp", enabled |-> TRUE],
             [id |-> " s1 ", name |-> "Alpha", transport |-> "streamable-http",
              url |-> "https://mcp", enabled |-> FALSE] >>
    /\ stored.servers =
          << [id |-> "s1", name |-> "Alpha", transport |-> "http",
              url |-> "https://mcp", enabled |-> FALSE] >>

\* C37: every stored key belongs to one entity: for non-blank agent and
\* session ids, also ids that contain ':' or end in ':sessions', the keys of
\* an agent record, an agent's session set, a session record and a session's
\* message log are the same only if they are the key of the same entity.
C37_KeysDisjoint ==
    (keyring.at = "keys" /\ keyring.first # keyring.second)
      => keyring.firstKey # keyring.secondKey

====
